---- MODULE Spec2Model ----
(***************************************************************************)
(* A model of the accounting service: the relational store with its five   *)
(* tables, the three message handlers of the ingester, the estimator that  *)
(* turns consumption-rate samples into hourly billing events, the price    *)
(* configuration and the paged event query.                                *)
(*                                                                         *)
(* Conventions.                                                            *)
(*  - A timestamp is a UTC instant counted in ticks; HOUR ticks make one   *)
(*    clock hour.                                                          *)
(*  - A string (workspace, sku, name, unit) is a sequence of character     *)
(*    codes, so that concatenation and ordering are computed, not assumed. *)
(*  - A UUID is a natural number.  uuid4() is the least number not yet     *)
(*    used in the table; uuid5(name) is an injective code of the name.     *)
(*  - A float is an exact rational <<n, d>> in lowest terms (d > 0);       *)
(*    QNULL stands for None in a float column.                             *)
(*  - Every operation on the store returns a record with the exception it  *)
(*    raised ("none" when it returned), its return value and the store it  *)
(*    leaves behind.                                                       *)
(***************************************************************************)
EXTENDS Integers, Sequences, FiniteSets, TLC

VARIABLES
  db,       \* the committed content of the store, one field per table
  last,     \* what the most recent handler run reported (Messager.consume)
  handled,  \* number of messages consumed so far
  worker,   \* position and open transaction of each concurrent handler
  page      \* the paging client: rows fetched so far and the next 'after'

vars == <<db, last, handled, worker, page>>

----------------------------------------------------------------------------
(* Bounds of the model *)

MaxHandled == 3

(* Program constants *)

HOUR == 2
DAY == 24 * HOUR
NULL == -1
BadUuid == 0

----------------------------------------------------------------------------
(* Strings as sequences of character codes *)

DASH == <<0>>
EMPTY == <<>>
CharBase == 16
TimeChar == 4

W1 == <<1>>
W2 == <<2>>
S1 == <<1>>
S2 == <<2>>
Accounts == {1, 2}
CfgName == <<3>>
CfgUnit == <<3, 3>>

RECURSIVE StrCode(_)
StrCode(s) == IF s = <<>> THEN 1 ELSE StrCode(SubSeq(s, 1, Len(s) - 1)) * CharBase + s[Len(s)]

\* datetime.isoformat(): one character per instant, distinct from '-' and letters
isoformat(t) == <<TimeChar + t>>

\* uuid.uuid5(namespace, name): injective in name
uuid5(name) == StrCode(name)

\* the element of a one-element set: binds a value that is computed once
The(S) == CHOOSE x \in S : TRUE

Min(S) == CHOOSE x \in S : \A y \in S : x <= y
Max(S) == CHOOSE x \in S : \A y \in S : x >= y

\* uuid.uuid4() for a table whose rows are R: a value no row of it uses
uuid4(R) == IF R = {} THEN 1 ELSE Max({r.uuid : r \in R}) + 1

----------------------------------------------------------------------------
(* Exact rationals for float columns *)

RECURSIVE GCD(_, _)
GCD(a, b) == IF b = 0 THEN a ELSE GCD(b, a % b)

Abs(x) == IF x < 0 THEN -x ELSE x

Rat(n, d) ==
  LET s == IF d < 0 THEN -1 ELSE 1
      g == GCD(Abs(n), Abs(d))
  IN <<(s * n) \div g, (s * d) \div g>>

QNULL == <<0, 0>>
RatInt(i) == <<i, 1>>
RatAdd(p, q) == Rat(p[1] * q[2] + q[1] * p[2], p[2] * q[2])
RatMul(p, q) == Rat(p[1] * q[1], p[2] * q[2])

----------------------------------------------------------------------------
(* Time *)

\* dt.replace(minute=0, second=0, microsecond=0)
floor_to_hour(t) == t - (t % HOUR)

\* timedelta.seconds: the seconds component only, days dropped
seconds(delta) == delta % DAY

----------------------------------------------------------------------------
(* The store *)

EmptyDb ==
  [billing_item |-> {}, billing_item_price |-> {}, billing_event |-> {},
   rate_sample |-> {}, workspace_account |-> {}]

Result(e, r, d) == [exc |-> e, ret |-> r, db |-> d]

is_temporary_error_integrity(e) == e = "IntegrityError"

is_temporary_error_unless_known(e) == e \notin {"ValueError", "IntegrityError"}

\* DBIngester.is_temporary_error
is_temporary_error(e) == e = "OperationalError"

\* Messager.consume: how an exception leaving process_payload is reported
consume(e) ==
  IF e = "none" THEN "ok"
  ELSE IF is_temporary_error(e) THEN "temporary"
  ELSE "permanent"

\* UUID(s): raises ValueError on a string that is no UUID
uuid_parses(s) == s # BadUuid

\* UUID(msg.user) if msg.user else None
user_parses(u) == u = NULL \/ uuid_parses(u)

\* BillingItem.find_billing_item: the set holding the first matching row, if any
find_billing_item(d, sku) ==
  LET M == {i \in d.billing_item : i.sku = sku}
  IN IF M = {} THEN {} ELSE {CHOOSE i \in M : \A j \in M : i.uuid <= j.uuid}

\* select(BillingItem.uuid).where(BillingItem.sku == sku).scalar_subquery()
item_subquery(d, sku) ==
  LET F == find_billing_item(d, sku)
  IN IF F = {} THEN NULL ELSE (CHOOSE i \in F : TRUE).uuid

\* the sku of the item a row references
sku_of(d, item_id) == (CHOOSE i \in d.billing_item : i.uuid = item_id).sku

\* DBIngester._add_observed_sku: a plain insert of a stub item, then commit
add_observed_sku_skipped(d, sku) ==
  Result("none", NULL, d)

add_observed_sku(d, sku) ==
  LET row == [uuid |-> uuid4(d.billing_item), sku |-> sku, name |-> EMPTY, unit |-> EMPTY]
  IN Result("none", NULL, [d EXCEPT !.billing_item = @ \cup {row}])

----------------------------------------------------------------------------
(* WorkspaceAccount *)

record_mapping_overwrite(d, account, workspace) ==
  LET row == [workspace |-> workspace, account |-> account]
      kept == {r \in d.workspace_account : r.workspace # workspace}
  IN Result("none", row \notin d.workspace_account,
            [d EXCEPT !.workspace_account = kept \cup {row}])

\* WorkspaceAccount.record_mapping: INSERT ... WHERE NOT EXISTS, returns rowcount > 0
record_mapping(d, account, workspace) ==
  LET exists == \E r \in d.workspace_account : r.workspace = workspace
      row == [workspace |-> workspace, account |-> account]
  IN IF exists THEN Result("none", FALSE, d)
     ELSE Result("none", TRUE, [d EXCEPT !.workspace_account = @ \cup {row}])

\* WorkspaceSettingsIngesterMessager.process_payload
ws_process_payload(d, wsmsg) ==
  IF ~uuid_parses(wsmsg.account) THEN Result("ValueError", FALSE, d)
  ELSE record_mapping(d, wsmsg.account, wsmsg.name)

----------------------------------------------------------------------------
(* BillingEvent *)

event_row(d, msg) ==
  [uuid |-> msg.uuid, event_start |-> msg.event_start, event_end |-> msg.event_end,
   item_id |-> item_subquery(d, msg.sku), user |-> msg.user,
   workspace |-> msg.workspace, quantity |-> RatInt(msg.quantity)]

event_constraints_ok_quantity_nullable(row) ==
  /\ row.item_id # NULL
  /\ row.event_start <= row.event_end

\* the constraints of billing_event a new row is checked against before the
\* primary-key conflict is looked at: NOT NULL item_id and quantity,
\* CHECK event_start <= event_end
event_constraints_ok(row) ==
  /\ row.item_id # NULL
  /\ row.quantity # QNULL
  /\ row.event_start <= row.event_end

pk_conflict(rows, uuid) == \E r \in rows : r.uuid = uuid

insert_from_message_upsert(d, msg) ==
  LET row == event_row(d, msg)
      kept == {r \in d.billing_event : r.uuid # row.uuid}
  IN IF ~uuid_parses(msg.uuid) \/ ~user_parses(msg.user)
     THEN Result("ValueError", NULL, d)
     ELSE IF ~event_constraints_ok(row) THEN Result("IntegrityError", NULL, d)
     ELSE Result("none", row.uuid, [d EXCEPT !.billing_event = kept \cup {row}])

\* BillingEvent.insert_from_message: INSERT ... ON CONFLICT (uuid) DO NOTHING
\* RETURNING uuid
insert_from_message(d, msg) ==
  LET row == event_row(d, msg)
  IN IF ~uuid_parses(msg.uuid) \/ ~user_parses(msg.user)
     THEN Result("ValueError", NULL, d)
     ELSE IF ~event_constraints_ok(row) THEN Result("IntegrityError", NULL, d)
     ELSE IF pk_conflict(d.billing_event, row.uuid) THEN Result("none", NULL, d)
     ELSE Result("none", row.uuid, [d EXCEPT !.billing_event = @ \cup {row}])

\* AccountingIngesterMessager._try_record_event: insert and commit in one session
try_record_event(d, bemsg) == insert_from_message(d, bemsg)

Attempted(r, n) == [exc |-> r.exc, ret |-> r.ret, db |-> r.db, attempts |-> n]

be_process_payload_catch_all(d, bemsg) ==
  The({IF r1.exc # "none"
       THEN Attempted(try_record_event(add_observed_sku(d, bemsg.sku).db, bemsg), 2)
       ELSE Attempted(r1, 1) :
         r1 \in {try_record_event(d, bemsg)}})

be_process_payload_retry_again(d, bemsg) ==
  The({IF r1.exc = "IntegrityError"
       THEN The({IF r2.exc = "IntegrityError"
                 THEN Attempted(try_record_event(r2.db, bemsg), 3)
                 ELSE Attempted(r2, 2) :
                   r2 \in {try_record_event(add_observed_sku(d, bemsg.sku).db, bemsg)}})
       ELSE Attempted(r1, 1) :
         r1 \in {try_record_event(d, bemsg)}})

\* AccountingIngesterMessager.process_payload
be_process_payload(d, bemsg) ==
  The({IF r1.exc = "IntegrityError"
       THEN Attempted(try_record_event(add_observed_sku(d, bemsg.sku).db, bemsg), 2)
       ELSE Attempted(r1, 1) :
         r1 \in {try_record_event(d, bemsg)}})

----------------------------------------------------------------------------
(* BillableResourceConsumptionRateSample *)

sample_row(d, msg) ==
  [uuid |-> msg.uuid, sample_time |-> msg.sample_time,
   item_id |-> item_subquery(d, msg.sku), user |-> msg.user,
   workspace |-> msg.workspace, rate |-> msg.rate]

\* BillableResourceConsumptionRateSample.insert_from_message
sample_insert_from_message(d, msg) ==
  LET row == sample_row(d, msg)
  IN IF ~uuid_parses(msg.uuid) \/ ~user_parses(msg.user)
     THEN Result("ValueError", NULL, d)
     ELSE IF row.item_id = NULL THEN Result("IntegrityError", NULL, d)
     ELSE IF pk_conflict(d.rate_sample, row.uuid) THEN Result("none", NULL, d)
     ELSE Result("none", row.uuid, [d EXCEPT !.rate_sample = @ \cup {row}])

\* ConsumptionSampleRateIngesterMessager._try_record_event
sample_try_record_event(d, msg) == sample_insert_from_message(d, msg)

\* ConsumptionSampleRateIngesterMessager._record_event
record_event(d, msg) ==
  The({IF r1.exc = "IntegrityError"
       THEN Attempted(sample_try_record_event(add_observed_sku(d, msg.sku).db, msg), 2)
       ELSE Attempted(r1, 1) :
         r1 \in {sample_try_record_event(d, msg)}})

\* the rows of a set in ascending order of sample_time (ties by uuid)
RECURSIVE by_sample_time(_)
by_sample_time(R) ==
  IF R = {} THEN <<>>
  ELSE The({<<f>> \o by_sample_time(R \ {f}) :
              f \in {r \in R : \A q \in R :
                       \/ r.sample_time < q.sample_time
                       \/ (r.sample_time = q.sample_time /\ r.uuid <= q.uuid)}})

\* the WHERE clauses the three queries of find_data_for_interval share
pair_rows(d, workspace, sku) ==
  {s \in d.rate_sample : s.item_id = item_subquery(d, sku) /\ s.workspace = workspace}

\* sample_time <= start ORDER BY sample_time DESC LIMIT 1
last_before_start(d, workspace, sku, start) ==
  LET before == {s \in pair_rows(d, workspace, sku) : s.sample_time <= start}
  IN IF before = {} THEN {}
     ELSE {CHOOSE s \in before : \A q \in before :
             \/ s.sample_time > q.sample_time
             \/ (s.sample_time = q.sample_time /\ s.uuid <= q.uuid)}

\* sample_time >= end ORDER BY sample_time LIMIT 1
first_after_end(d, workspace, sku, end) ==
  LET after == {s \in pair_rows(d, workspace, sku) : s.sample_time >= end}
  IN IF after = {} THEN {}
     ELSE {CHOOSE s \in after : \A q \in after :
             \/ s.sample_time < q.sample_time
             \/ (s.sample_time = q.sample_time /\ s.uuid <= q.uuid)}

\* sample_time > start AND sample_time < end, no ORDER BY
in_period(d, workspace, sku, start, end) ==
  {s \in pair_rows(d, workspace, sku) : s.sample_time > start /\ s.sample_time < end}

\* BillableResourceConsumptionRateSample.find_data_for_interval, the branch
\* for drivers other than SQLite: union(...).order_by("sample_time")
find_data_for_interval(d, workspace, sku, start, end) ==
  by_sample_time(last_before_start(d, workspace, sku, start)
                   \cup first_after_end(d, workspace, sku, end)
                   \cup in_period(d, workspace, sku, start, end))

\* the orders in which a query without ORDER BY may return the rows R
row_orders(R) ==
  {f \in [1..Cardinality(R) -> R] : \A r \in R : \E k \in 1..Cardinality(R) : f[k] = r}

\* find_data_for_interval, the branch for SQLite: the three result lists
\* concatenated; every list it may return
find_data_for_interval_sqlite(d, workspace, sku, start, end) ==
  {by_sample_time(last_before_start(d, workspace, sku, start))
     \o p \o by_sample_time(first_after_end(d, workspace, sku, end)) :
       p \in row_orders(in_period(d, workspace, sku, start, end))}

\* BillableResourceConsumptionRateSample.seconds_after
seconds_after(s, after) == seconds(s.sample_time - after)

\* interpolate(at, s0, s1) inside calculate_consumption_for_interval; callers
\* check its two assertions with interpolate_ok
interpolate_ok(at, s0, s1) == at >= s0.sample_time /\ at <= s1.sample_time

interpolate_step(at, s0, s1) == RatInt(s0.rate)

interpolate(at, s0, s1) ==
  LET proportion == Rat(at - s0.sample_time, s1.sample_time - s0.sample_time)
  IN RatAdd(RatInt(s0.rate), RatMul(proportion, RatInt(s1.rate - s0.rate)))

RateTime(at, rate) == [at |-> at, rate |-> rate]

\* the integration loop over consecutive RateTimes
RECURSIVE integrate(_)
integrate(ratelist) ==
  IF Len(ratelist) < 2 THEN RatInt(0)
  ELSE LET s0 == ratelist[1]
           s1 == ratelist[2]
           duration == s1.at - s0.at
           rate == RatMul(RatAdd(s0.rate, s1.rate), Rat(1, 2))
       IN RatAdd(RatMul(RatInt(duration), rate), integrate(Tail(ratelist)))

ascending(ratelist) ==
  \A i \in 1..(Len(ratelist) - 1) : ratelist[i + 1].at >= ratelist[i].at

starting_ratetime_ramp(rs, start) ==
  IF rs[1].sample_time > start
  THEN RateTime(0, RatInt(0))
  ELSE RateTime(0, interpolate(start, rs[1], rs[2]))

\* starting_ratetime: rate 0 up to the first sample when no sample is at or
\* before start, else the rate interpolated at start
starting_ratetime(rs, start) ==
  IF rs[1].sample_time > start
  THEN RateTime(seconds_after(rs[1], start), RatInt(0))
  ELSE RateTime(0, interpolate(start, rs[1], rs[2]))

\* ending_ratetime: rate 0 from the last sample on when no sample is at or
\* after end, else the rate interpolated at end
ending_ratetime(rs, start, end) ==
  IF rs[Len(rs)].sample_time < end
  THEN RateTime(seconds_after(rs[Len(rs)], start), RatInt(0))
  ELSE RateTime(seconds(end - start), interpolate(end, rs[Len(rs) - 1], rs[Len(rs)]))

\* the body of calculate_consumption_for_interval over the rows rs that
\* find_data_for_interval returned: ret is the consumption, QNULL for None
consumption_of(d, rs, start, end) ==
  LET n == Len(rs)
      no_before == rs[1].sample_time > start
      no_after == rs[n].sample_time < end
      asserts_ok ==
        /\ no_before \/ (rs[2].sample_time # rs[1].sample_time
                         /\ interpolate_ok(start, rs[1], rs[2]))
        /\ no_after \/ (rs[n].sample_time # rs[n - 1].sample_time
                        /\ interpolate_ok(end, rs[n - 1], rs[n]))
      is_mid(s) == s.sample_time > start /\ ~(s.sample_time > end)
      mid_samples == SelectSeq(rs, is_mid)
      mid_ratetimes ==
        [i \in 1..Len(mid_samples) |->
           RateTime(seconds_after(mid_samples[i], start), RatInt(mid_samples[i].rate))]
  IN IF n <= 1 THEN Result("none", QNULL, d)
     ELSE IF ~asserts_ok THEN Result("AssertionError", QNULL, d)
     ELSE The({IF ~ascending(ratelist) THEN Result("AssertionError", QNULL, d)
               ELSE Result("none", integrate(ratelist), d) :
                 ratelist \in {<<starting_ratetime(rs, start)>> \o mid_ratetimes
                                 \o <<ending_ratetime(rs, start, end)>>}})

calculate_consumption_for_interval(d, workspace, sku, start, end) ==
  The({consumption_of(d, rs, start, end) :
         rs \in {find_data_for_interval(d, workspace, sku, start, end)}})

find_earliest_newest(d, workspace, item_id) ==
  LET M == {s \in d.rate_sample : s.workspace = workspace /\ s.item_id = item_id}
  IN IF M = {} THEN NULL ELSE Max({s.sample_time : s \in M})

\* BillableResourceConsumptionRateSample.find_earliest: the least sample_time,
\* NULL when there is no row
find_earliest(d, workspace, item_id) ==
  LET M == {s \in d.rate_sample : s.workspace = workspace /\ s.item_id = item_id}
  IN IF M = {} THEN NULL ELSE Min({s.sample_time : s \in M})

\* BillingEvent.find_latest_billing_event: the greatest event_end among the
\* events of the workspace joined to the items of the sku, NULL when none
find_latest_billing_event(d, workspace, sku) ==
  LET M == {e \in d.billing_event :
              e.workspace = workspace /\ sku_of(d, e.item_id) = sku}
  IN IF M = {} THEN NULL ELSE Max({e.event_end : e \in M})

----------------------------------------------------------------------------
(* The estimator: ConsumptionSampleRateIngesterMessager._generate_new_estimates *)

\* (generate_from + timedelta(hours=1)).replace(minute=0, second=0, microsecond=0)
next_generate_to(generate_from) == floor_to_hour(generate_from + HOUR)

\* uuid.uuid5(NAMESPACE, f"{workspace}-{sku}-{generate_from.isoformat()}")
estimate_uuid(workspace, sku, generate_from) ==
  uuid5(workspace \o DASH \o sku \o DASH \o isoformat(generate_from))

\* the BillingEvent the loop body hands to session.add
estimate_row(item_id, workspace, sku, generate_from, generate_to, consumption) ==
  [uuid |-> estimate_uuid(workspace, sku, generate_from),
   event_start |-> generate_from, event_end |-> generate_to,
   item_id |-> item_id, user |-> NULL, workspace |-> workspace,
   quantity |-> consumption]

est_begin_from_earliest(d, workspace, sku) ==
  LET item == item_subquery(d, sku)
      earliest_sample == find_earliest(d, workspace, item)
  IN IF item = NULL THEN Result("AssertionError", NULL, d)
     ELSE IF earliest_sample = NULL THEN Result("AssertionError", NULL, d)
     ELSE Result("none", floor_to_hour(earliest_sample), d)

\* the statements before the loop: the item, the latest event, the earliest
\* sample; ret is generate_from
est_begin(d, workspace, sku) ==
  LET item == item_subquery(d, sku)
      last_estimate == find_latest_billing_event(d, workspace, sku)
      earliest_sample == find_earliest(d, workspace, item)
  IN IF item = NULL THEN Result("AssertionError", NULL, d)
     ELSE IF last_estimate # NULL THEN Result("none", last_estimate, d)
     ELSE IF earliest_sample = NULL THEN Result("AssertionError", NULL, d)
     ELSE Result("none", floor_to_hour(earliest_sample), d)

flush_unchecked(d, flushed, added) ==
  [exc |-> "none", flushed |-> flushed \cup added]

\* the session's flush: INSERT of the rows added since the last flush, checked
\* against the table's constraints and its primary key
flush(d, flushed, added) ==
  IF \E row \in added :
       \/ ~event_constraints_ok(row)
       \/ pk_conflict(d.billing_event \cup flushed, row.uuid)
  THEN [exc |-> "IntegrityError", flushed |-> flushed]
  ELSE [exc |-> "none", flushed |-> flushed \cup added]

\* the while loop and the commit, run against an unchanging store; ret is the
\* set of rows committed
RECURSIVE est_loop(_, _, _, _, _, _, _, _)
est_loop(d, item, workspace, sku, generate_from, upto, flushed, added) ==
  The({IF f.exc # "none" THEN Result(f.exc, {}, d)
       ELSE IF generate_to <= upto
       THEN The({IF c.exc # "none" THEN Result(c.exc, {}, d)
                 ELSE est_loop(d, item, workspace, sku, generate_to, upto, f.flushed,
                               {estimate_row(item, workspace, sku, generate_from,
                                             generate_to, c.ret)}) :
                   c \in {calculate_consumption_for_interval(d, workspace, sku,
                                                             generate_from, generate_to)}})
       ELSE Result("none", f.flushed, [d EXCEPT !.billing_event = @ \cup f.flushed]) :
         generate_to \in {next_generate_to(generate_from)},
         f \in {flush(d, flushed, added)}})

generate_new_estimates(d, workspace, sku, upto) ==
  The({IF b.exc # "none" THEN Result(b.exc, {}, d)
       ELSE est_loop(d, item, workspace, sku, b.ret, upto, {}, {}) :
         b \in {est_begin(d, workspace, sku)}, item \in {item_subquery(d, sku)}})

\* generate_upto in process_payload: the message's wall-clock hour, zone dropped
generate_upto(msg) == floor_to_hour(msg.sample_time + msg.tzoff)

\* ConsumptionSampleRateIngesterMessager.process_payload
sample_process_payload(d, msg) ==
  The({IF r.exc # "none"
       THEN [exc |-> r.exc, ret |-> r.ret, db |-> r.db, attempts |-> r.attempts,
             created |-> {}]
       ELSE The({[exc |-> g.exc, ret |-> r.ret, db |-> g.db, attempts |-> r.attempts,
                  created |-> g.ret] :
                   g \in {generate_new_estimates(r.db, msg.workspace, msg.sku,
                                                 generate_upto(msg))}}) :
         r \in {record_event(d, msg)}})

----------------------------------------------------------------------------
(* Messages *)

EventUuids == {1, 2}
SampleUuids == {1, 2}
\* <<event_start, event_end, quantity>>
EventShapes == {<<0, 1, 1>>, <<1, 3, 2>>}
\* <<sample_time, rate>>
SampleShapes == {<<1, 2>>, <<3, 4>>, <<5, 1>>}

EventMsgs ==
  {[uuid |-> u, event_start |-> sh[1], event_end |-> sh[2], sku |-> s,
    workspace |-> W1, user |-> NULL, quantity |-> sh[3]] :
     u \in EventUuids, sh \in EventShapes, s \in {S1, S2}}

SampleMsgs ==
  {[uuid |-> u, sample_time |-> sh[1], tzoff |-> 0, sku |-> s, workspace |-> W1,
    user |-> NULL, rate |-> sh[2]] :
     u \in SampleUuids, sh \in SampleShapes, s \in {S1, S2}}

WsMsgs == {[name |-> w, account |-> a] : w \in {W1, W2}, a \in Accounts}

----------------------------------------------------------------------------
(* The ingester, one message at a time *)

NoWorker == [pc |-> "idle"]
NoPage == [workspace |-> <<15>>, limit |-> 0, after |-> NULL, seen |-> <<>>, done |-> FALSE]

Report(kind, uuid, sku, workspace, upto, d, r, attempts, created) ==
  [kind |-> kind, uuid |-> uuid, sku |-> sku, workspace |-> workspace, upto |-> upto,
   outcome |-> consume(r.exc), exc |-> r.exc, ret |-> r.ret,
   attempts |-> attempts, created |-> created,
   known |-> IF kind = "ws" THEN TRUE ELSE item_subquery(d, sku) # NULL,
   dup |-> IF kind = "event" THEN pk_conflict(d.billing_event, uuid)
           ELSE IF kind = "sample" THEN pk_conflict(d.rate_sample, uuid)
           ELSE \E x \in d.workspace_account : x.workspace = workspace]

NoReport ==
  [kind |-> "none", uuid |-> NULL, sku |-> EMPTY, workspace |-> EMPTY, upto |-> NULL,
   outcome |-> "ok", exc |-> "none",
   ret |-> NULL, attempts |-> 0, created |-> {}, known |-> TRUE, dup |-> FALSE]

ConfiguredItem(sku) == [uuid |-> 1, sku |-> sku, name |-> CfgName, unit |-> CfgUnit]

InitIngest ==
  /\ db \in {EmptyDb, [EmptyDb EXCEPT !.billing_item = {ConfiguredItem(S1)}]}
  /\ last = NoReport
  /\ handled = 0
  /\ worker = <<>>
  /\ page = NoPage

HandleBillingEvent ==
  \E m \in EventMsgs :
    /\ handled < MaxHandled
    /\ \E r \in {be_process_payload(db, m)} :
          /\ db' = r.db
          /\ last' = Report("event", m.uuid, m.sku, m.workspace, NULL, db, r, r.attempts, {})
    /\ handled' = handled + 1
    /\ UNCHANGED <<worker, page>>

HandleWorkspaceSettings ==
  \E m \in WsMsgs :
    /\ handled < MaxHandled
    /\ \E r \in {ws_process_payload(db, m)} :
          /\ db' = r.db
          /\ last' = Report("ws", m.account, EMPTY, m.name, NULL, db, r, 1, {})
    /\ handled' = handled + 1
    /\ UNCHANGED <<worker, page>>

HandleRateSample ==
  \E m \in SampleMsgs :
    /\ handled < MaxHandled
    /\ \E r \in {sample_process_payload(db, m)} :
          /\ db' = r.db
          /\ last' = Report("sample", m.uuid, m.sku, m.workspace, generate_upto(m), db, r,
                           r.attempts, r.created)
    /\ handled' = handled + 1
    /\ UNCHANGED <<worker, page>>

NextIngest ==
  \/ HandleBillingEvent
  \/ HandleWorkspaceSettings
  \/ HandleRateSample

SpecIngest == InitIngest /\ [][NextIngest]_vars

----------------------------------------------------------------------------
(* Properties of the ingester, one message at a time *)

Uptos == {0, 2, 4, 6}

Stored(kind, d) == IF kind = "event" THEN d.billing_event ELSE d.rate_sample

C2_FirstWriterWins ==
  [][/\ \A r \in db.workspace_account : r \in db'.workspace_account
     /\ \A r, q \in db'.workspace_account : r.workspace = q.workspace => r = q
     /\ (last'.kind = "ws" /\ handled' = handled + 1)
        => (/\ last'.outcome = "ok"
            /\ last'.ret = ~(\E r \in db.workspace_account :
                               r.workspace = last'.workspace)
            /\ db'.workspace_account =
                 IF last'.ret
                 THEN db.workspace_account
                        \cup {[workspace |-> last'.workspace, account |-> last'.uuid]}
                 ELSE db.workspace_account)]_vars

\* a later message named another account and the first mapping is kept
C2_Witness ==
  /\ last.kind = "ws" /\ last.dup /\ last.ret = FALSE
  /\ \E r \in db.workspace_account :
       r.workspace = last.workspace /\ r.account # last.uuid

StubRecorded ==
  /\ last.attempts = 2
  /\ last.outcome = "ok"
  /\ \E i \in db.billing_item :
       /\ i.sku = last.sku /\ i.name = EMPTY /\ i.unit = EMPTY
       /\ \A j \in db.billing_item : j.sku = last.sku => j = i
       /\ \E r \in Stored(last.kind, db) : r.uuid = last.uuid /\ r.item_id = i.uuid

----------------------------------------------------------------------------
(* The catalogue: configured items and prices *)

ABSENT == <<15>>

\* BillingItem.upsert_configured_item
upsert_configured_item(d, item) ==
  LET F == find_billing_item(d, item.sku)
      old == CHOOSE i \in F : TRUE
      new == [old EXCEPT !.name = IF item.name = ABSENT THEN @ ELSE item.name,
                         !.unit = IF item.unit = ABSENT THEN @ ELSE item.unit]
      row == [uuid |-> uuid4(d.billing_item), sku |-> item.sku,
              name |-> item.name, unit |-> item.unit]
  IN IF F # {}
     THEN Result("none", NULL, [d EXCEPT !.billing_item = (@ \ {old}) \cup {new}])
     ELSE IF item.name = ABSENT \/ item.unit = ABSENT
     THEN Result("IntegrityError", NULL, d)
     ELSE Result("none", NULL, [d EXCEPT !.billing_item = @ \cup {row}])

prices_of(d, item_id) == {p \in d.billing_item_price : p.item_id = item_id}

\* the latest price of an item: ORDER BY valid_from DESC LIMIT 1
latest_price(d, item_id) ==
  LET P == prices_of(d, item_id)
  IN IF P = {} THEN {}
     ELSE {CHOOSE p \in P : \A q \in P :
             \/ p.valid_from > q.valid_from
             \/ (p.valid_from = q.valid_from /\ p.uuid <= q.uuid)}

upsert_configured_price_keep_open(d, price, now) ==
  LET item_id == item_subquery(d, price.sku)
      same == {p \in prices_of(d, item_id) : p.valid_from = price.valid_from}
      updated == {[p EXCEPT !.price = price.price] : p \in same}
      L == latest_price(d, item_id)
      row == [uuid |-> uuid4(d.billing_item_price), item_id |-> item_id,
              price |-> price.price, valid_from |-> price.valid_from,
              valid_until |-> NULL, configured_at |-> now]
  IN IF item_id = NULL THEN Result("ValueError", NULL, d)
     ELSE IF same # {}
     THEN Result("none", NULL,
                 [d EXCEPT !.billing_item_price = (@ \ same) \cup updated])
     ELSE IF \E l \in L : l.valid_from > price.valid_from
     THEN Result("ValueError", NULL, d)
     ELSE Result("none", NULL, [d EXCEPT !.billing_item_price = @ \cup {row}])

upsert_configured_price_close_now(d, price, now) ==
  LET item_id == item_subquery(d, price.sku)
      same == {p \in prices_of(d, item_id) : p.valid_from = price.valid_from}
      updated == {[p EXCEPT !.price = price.price] : p \in same}
      L == latest_price(d, item_id)
      closed == {[l EXCEPT !.valid_until = now] : l \in L}
      row == [uuid |-> uuid4(d.billing_item_price), item_id |-> item_id,
              price |-> price.price, valid_from |-> price.valid_from,
              valid_until |-> NULL, configured_at |-> now]
  IN IF item_id = NULL THEN Result("ValueError", NULL, d)
     ELSE IF same # {}
     THEN Result("none", NULL,
                 [d EXCEPT !.billing_item_price = (@ \ same) \cup updated])
     ELSE IF \E l \in L : l.valid_from > price.valid_from
     THEN Result("ValueError", NULL, d)
     ELSE Result("none", NULL,
                 [d EXCEPT !.billing_item_price = ((@ \ L) \cup closed) \cup {row}])

upsert_configured_price_unordered(d, price, now) ==
  LET item_id == item_subquery(d, price.sku)
      same == {p \in prices_of(d, item_id) : p.valid_from = price.valid_from}
      updated == {[p EXCEPT !.price = price.price] : p \in same}
      L == latest_price(d, item_id)
      closed == {[l EXCEPT !.valid_until = price.valid_from] : l \in L}
      row == [uuid |-> uuid4(d.billing_item_price), item_id |-> item_id,
              price |-> price.price, valid_from |-> price.valid_from,
              valid_until |-> NULL, configured_at |-> now]
  IN IF item_id = NULL THEN Result("ValueError", NULL, d)
     ELSE IF same # {}
     THEN Result("none", NULL,
                 [d EXCEPT !.billing_item_price = (@ \ same) \cup updated])
     ELSE Result("none", NULL,
                 [d EXCEPT !.billing_item_price = ((@ \ L) \cup closed) \cup {row}])

upsert_configured_price_reopen(d, price, now) ==
  LET item_id == item_subquery(d, price.sku)
      same == {p \in prices_of(d, item_id) : p.valid_from = price.valid_from}
      updated == {[p EXCEPT !.price = price.price, !.valid_until = NULL] : p \in same}
      L == latest_price(d, item_id)
      closed == {[l EXCEPT !.valid_until = price.valid_from] : l \in L}
      row == [uuid |-> uuid4(d.billing_item_price), item_id |-> item_id,
              price |-> price.price, valid_from |-> price.valid_from,
              valid_until |-> NULL, configured_at |-> now]
  IN IF item_id = NULL THEN Result("ValueError", NULL, d)
     ELSE IF same # {}
     THEN Result("none", NULL,
                 [d EXCEPT !.billing_item_price = (@ \ same) \cup updated])
     ELSE IF \E l \in L : l.valid_from > price.valid_from
     THEN Result("ValueError", NULL, d)
     ELSE Result("none", NULL,
                 [d EXCEPT !.billing_item_price = ((@ \ L) \cup closed) \cup {row}])

\* BillingItemPrice.upsert_configured_price; now is the value of func.now()
upsert_configured_price(d, price, now) ==
  LET item_id == item_subquery(d, price.sku)
      same == {p \in prices_of(d, item_id) : p.valid_from = price.valid_from}
      updated == {[p EXCEPT !.price = price.price] : p \in same}
      L == latest_price(d, item_id)
      closed == {[l EXCEPT !.valid_until = price.valid_from] : l \in L}
      row == [uuid |-> uuid4(d.billing_item_price), item_id |-> item_id,
              price |-> price.price, valid_from |-> price.valid_from,
              valid_until |-> NULL, configured_at |-> now]
  IN IF item_id = NULL THEN Result("ValueError", NULL, d)
     ELSE IF same # {}
     THEN Result("none", NULL,
                 [d EXCEPT !.billing_item_price = (@ \ same) \cup updated])
     ELSE IF \E l \in L : l.valid_from > price.valid_from
     THEN Result("ValueError", NULL, d)
     ELSE Result("none", NULL,
                 [d EXCEPT !.billing_item_price = ((@ \ L) \cup closed) \cup {row}])

\* the two loops of insert_configuration, run in one session
RECURSIVE upsert_items(_, _)
upsert_items(d, items) ==
  IF items = <<>> THEN Result("none", NULL, d)
  ELSE LET r == upsert_configured_item(d, Head(items))
       IN IF r.exc # "none" THEN r ELSE upsert_items(r.db, Tail(items))

RECURSIVE upsert_prices(_, _, _)
upsert_prices(d, prices, now) ==
  IF prices = <<>> THEN Result("none", NULL, d)
  ELSE LET r == upsert_configured_price(d, Head(prices), now)
       IN IF r.exc # "none" THEN r ELSE upsert_prices(r.db, Tail(prices), now)

insert_configuration_partial(d, config, now) ==
  LET ri == upsert_items(d, config.items)
      rp == upsert_prices(ri.db, config.prices, now)
  IN IF ri.exc # "none" THEN Result(ri.exc, NULL, d)
     ELSE IF rp.exc # "none" THEN Result(rp.exc, NULL, ri.db)
     ELSE Result("none", NULL, rp.db)

\* db.insert_configuration: the session commits only when every upsert returned
insert_configuration(d, config, now) ==
  LET ri == upsert_items(d, config.items)
      rp == upsert_prices(ri.db, config.prices, now)
  IN IF ri.exc # "none" THEN Result(ri.exc, NULL, d)
     ELSE IF rp.exc # "none" THEN Result(rp.exc, NULL, d)
     ELSE Result("none", NULL, rp.db)

MaxLoads == 4
MaxPrices == 2

\* <<sku, valid_from, price>>
PriceShapes ==
  {<<S1, 1, 10>>, <<S1, 2, 10>>, <<S1, 2, 11>>, <<S1, 3, 10>>,
   <<S2, 1, 10>>, <<S2, 2, 10>>}

ItemEntry(sku) == [sku |-> sku, name |-> CfgName, unit |-> CfgUnit]
PriceEntries ==
  {[sku |-> sh[1], valid_from |-> sh[2], price |-> sh[3]] : sh \in PriceShapes}

SeqsUpTo(S, n) == UNION {[1..k -> S] : k \in 0..n}

Configs ==
  {[items |-> i, prices |-> <<>>] : i \in {<<ItemEntry(S1)>>, <<ItemEntry(S2)>>}}
    \cup {[items |-> <<>>, prices |-> ps] : ps \in SeqsUpTo(PriceEntries, MaxPrices)}

InitPrice ==
  /\ db = EmptyDb
  /\ last = NoReport
  /\ handled = 0
  /\ worker = <<>>
  /\ page = NoPage

LoadConfiguration ==
  \E config \in Configs :
    /\ handled < MaxLoads
    /\ LET r == insert_configuration(db, config, handled)
       IN /\ db' = r.db
          /\ last' = [NoReport EXCEPT !.kind = "config", !.exc = r.exc,
                                      !.outcome = consume(r.exc)]
    /\ handled' = handled + 1
    /\ UNCHANGED <<worker, page>>

NextPrice == LoadConfiguration

SpecPrice == InitPrice /\ [][NextPrice]_vars

----------------------------------------------------------------------------
(* Properties of the price timeline *)

open_prices(d, item_id) == {p \in prices_of(d, item_id) : p.valid_until = NULL}

\* C7: whatever configurations were loaded, accepted or rejected, every item
\* has at most one price whose valid_until is open.
C7_AtMostOneOpenPrice ==
  \A i \in db.billing_item : Cardinality(open_prices(db, i.uuid)) <= 1

\* a load was just rejected and some item has a closed and an open price
C7_Witness ==
  /\ last.kind = "config" /\ last.exc = "ValueError"
  /\ \E i \in db.billing_item :
       /\ Cardinality(prices_of(db, i.uuid)) >= 2
       /\ Cardinality(open_prices(db, i.uuid)) = 1

consecutive(P, p, q) ==
  /\ p.valid_from < q.valid_from
  /\ ~\E r \in P : p.valid_from < r.valid_from /\ r.valid_from < q.valid_from

gap_free(P) ==
  /\ \A p, q \in P : consecutive(P, p, q) => p.valid_until = q.valid_from
  /\ \A p \in P : p.valid_until # NULL => p.valid_from <= p.valid_until

head_of(d, item_id) ==
  IF prices_of(d, item_id) = {} THEN NULL
  ELSE (CHOOSE l \in latest_price(d, item_id) : TRUE).valid_from

\* the entry names a known item, matches none of its prices exactly and is
\* earlier than its latest price
out_of_order(d, e) ==
  LET item_id == item_subquery(d, e.sku)
  IN /\ item_id # NULL
     /\ \A p \in prices_of(d, item_id) : p.valid_from # e.valid_from
     /\ \E l \in latest_price(d, item_id) : l.valid_from > e.valid_from

\* the entry names a known item and matches one of its prices exactly
exact_match(d, e) ==
  LET item_id == item_subquery(d, e.sku)
  IN /\ item_id # NULL
     /\ \E p \in prices_of(d, item_id) : p.valid_from = e.valid_from

\* C19: an upsert whose valid_from is earlier than that of the item's latest
\* price and matches no price of the item exactly fails with ValueError and
\* leaves the store as it was; and no upsert at all moves the latest
\* valid_from of any item backwards.
C19_OutOfOrderPriceRejected ==
  \A e \in PriceEntries :
    \A r \in {upsert_configured_price(db, e, handled)} :
      /\ out_of_order(db, e) => (r.exc = "ValueError" /\ r.db = db)
      /\ \A i \in db.billing_item :
           head_of(db, i.uuid) # NULL
           => /\ head_of(r.db, i.uuid) # NULL
              /\ head_of(r.db, i.uuid) >= head_of(db, i.uuid)

\* every sku of the entries is configured, so a ValueError can only be the
\* order check; a load was just rejected with it, and an entry is out of order
C19_Witness ==
  /\ last.kind = "config" /\ last.exc = "ValueError"
  /\ \A e \in PriceEntries : item_subquery(db, e.sku) # NULL
  /\ \E e \in PriceEntries : out_of_order(db, e)

----------------------------------------------------------------------------
(* The event query: BillingEvent.find_billing_events *)

\* None for an optional string argument
NONE == ABSENT

\* a < b for strings
RECURSIVE str_less(_, _)
str_less(a, b) ==
  IF b = <<>> THEN FALSE
  ELSE IF a = <<>> THEN TRUE
  ELSE IF Head(a) # Head(b) THEN Head(a) < Head(b)
  ELSE str_less(Tail(a), Tail(b))

\* the ORDER BY of the query: event_start, event_end, workspace, uuid
order_before(e, f) ==
  \/ e.event_start < f.event_start
  \/ (e.event_start = f.event_start /\ e.event_end < f.event_end)
  \/ (e.event_start = f.event_start /\ e.event_end = f.event_end
      /\ str_less(e.workspace, f.workspace))
  \/ (e.event_start = f.event_start /\ e.event_end = f.event_end
      /\ e.workspace = f.workspace /\ e.uuid <= f.uuid)

RECURSIVE ordered(_)
ordered(R) ==
  IF R = {} THEN <<>>
  ELSE LET f == CHOOSE e \in R : \A g \in R : order_before(e, g)
       IN <<f>> \o ordered(R \ {f})

after_filter_start_only(e, after_be) == e.event_start > after_be.event_start

after_filter_inclusive(e, after_be) ==
  \/ e.event_start > after_be.event_start
  \/ (e.event_start = after_be.event_start /\ e.event_end > after_be.event_end)
  \/ (e.event_start = after_be.event_start /\ e.event_end = after_be.event_end
      /\ str_less(after_be.workspace, e.workspace))
  \/ (e.event_start = after_be.event_start /\ e.event_end = after_be.event_end
      /\ e.workspace = after_be.workspace /\ e.uuid >= after_be.uuid)

\* the WHERE clause built when the row named by 'after' exists
after_filter(e, after_be) ==
  \/ e.event_start > after_be.event_start
  \/ (e.event_start = after_be.event_start /\ e.event_end > after_be.event_end)
  \/ (e.event_start = after_be.event_start /\ e.event_end = after_be.event_end
      /\ str_less(after_be.workspace, e.workspace))
  \/ (e.event_start = after_be.event_start /\ e.event_end = after_be.event_end
      /\ e.workspace = after_be.workspace /\ e.uuid > after_be.uuid)

find_billing_events_outer_join(d, workspace, account, start, end, after, limit) ==
  LET after_rows == {e \in d.billing_event : e.uuid = after}
      matching ==
        {e \in d.billing_event :
           /\ workspace # NONE => e.workspace = workspace
           /\ account # NULL =>
                \A wa \in d.workspace_account :
                  wa.workspace = e.workspace => wa.account = account
           /\ start # NULL => e.event_start >= start
           /\ end # NULL => e.event_end < end
           /\ (after # NULL) => \A a \in after_rows : after_filter(e, a)}
      rows == ordered(matching)
  IN IF Len(rows) <= limit THEN rows ELSE SubSeq(rows, 1, limit)

find_billing_events_end_inclusive(d, workspace, account, start, end, after, limit) ==
  LET after_rows == {e \in d.billing_event : e.uuid = after}
      matching ==
        {e \in d.billing_event :
           /\ workspace # NONE => e.workspace = workspace
           /\ account # NULL =>
                \E wa \in d.workspace_account :
                  wa.workspace = e.workspace /\ wa.account = account
           /\ start # NULL => e.event_start >= start
           /\ end # NULL => e.event_end <= end
           /\ (after # NULL) => \A a \in after_rows : after_filter(e, a)}
      rows == ordered(matching)
  IN IF Len(rows) <= limit THEN rows ELSE SubSeq(rows, 1, limit)

\* BillingEvent.find_billing_events
find_billing_events(d, workspace, account, start, end, after, limit) ==
  LET after_rows == {e \in d.billing_event : e.uuid = after}
      matching ==
        {e \in d.billing_event :
           /\ workspace # NONE => e.workspace = workspace
           /\ account # NULL =>
                \E wa \in d.workspace_account :
                  wa.workspace = e.workspace /\ wa.account = account
           /\ start # NULL => e.event_start >= start
           /\ end # NULL => e.event_end < end
           /\ (after # NULL) => \A a \in after_rows : after_filter(e, a)}
      rows == ordered(matching)
  IN IF Len(rows) <= limit THEN rows ELSE SubSeq(rows, 1, limit)

MaxEvents == 3
MaxLimit == 3

\* <<event_start, event_end, workspace>>
PageShapes == {<<0, 1, W1>>, <<0, 1, W2>>, <<0, 2, W1>>, <<1, 2, W1>>}

page_event(u, sh) ==
  [uuid |-> u, event_start |-> sh[1], event_end |-> sh[2], item_id |-> 1,
   user |-> NULL, workspace |-> sh[3], quantity |-> RatInt(1)]

InitPaging ==
  /\ \E shape \in [1..MaxEvents -> PageShapes] :
       db = [EmptyDb EXCEPT !.billing_item = {ConfiguredItem(S1)},
                            !.billing_event =
                               {page_event(u, shape[u]) : u \in 1..MaxEvents}]
  /\ \E l \in 1..MaxLimit, w \in {NONE, W1} :
       page = [NoPage EXCEPT !.limit = l, !.workspace = w]
  /\ last = NoReport
  /\ handled = 0
  /\ worker = <<>>

\* the client: fetch the next page, passing the uuid of the last row seen
FetchPage ==
  /\ ~page.done
  /\ LET rows == find_billing_events(db, page.workspace, NULL, NULL, NULL,
                                     page.after, page.limit)
     IN page' = [page EXCEPT !.seen = @ \o rows,
                             !.after = IF rows = <<>> THEN @ ELSE rows[Len(rows)].uuid,
                             !.done = Len(rows) < page.limit]
  /\ handled' = handled + 1
  /\ UNCHANGED <<db, last, worker>>

NextPaging == FetchPage

SpecPaging == InitPaging /\ [][NextPaging]_vars

page_matching ==
  {e \in db.billing_event : page.workspace # NONE => e.workspace = page.workspace}

is_prefix(a, b) == Len(a) <= Len(b) /\ a = SubSeq(b, 1, Len(a))

\* C6: paging a fixed set of events with limit L >= 1 and after = the uuid of
\* the last row of the previous page returns the matching rows in ascending
\* (event_start, event_end, workspace, uuid) order, each exactly once: every
\* page before the last is full and continues the order where the previous
\* one stopped, and the page that ends the paging, shorter than L or empty,
\* leaves no matching row unseen.
C6_PagingExactlyOnce ==
  /\ is_prefix(page.seen, ordered(page_matching))
  /\ ~page.done => Len(page.seen) = handled * page.limit
  /\ page.done => page.seen = ordered(page_matching)

\* paging ended after three pages and the rows tie on event_start
C6_Witness ==
  /\ page.done /\ handled >= 3 /\ Len(page.seen) >= 3
  /\ \E i \in 1..(Len(page.seen) - 1) :
       /\ page.seen[i].event_start = page.seen[i + 1].event_start
       /\ page.seen[i].uuid > page.seen[i + 1].uuid

----------------------------------------------------------------------------
(* Concurrent sample handlers.  Every session.commit() publishes at once what *)
(* the session wrote; a statement reads the committed store and the rows its *)
(* own session has flushed; an INSERT whose primary key is held by a row     *)
(* another open session has flushed waits for that session to end.           *)

Workers == {1, 2}
MaxStarted == 2

NoMsg ==
  [uuid |-> NULL, sample_time |-> 0, tzoff |-> 0, sku |-> EMPTY, workspace |-> EMPTY,
   user |-> NULL, rate |-> 0]

Idle ==
  [pc |-> "idle", msg |-> NoMsg, attempts |-> 0, unknown |-> FALSE, item |-> NULL,
   generate_from |-> NULL, flushed |-> {}, added |-> {}, outcome |-> "none",
   exc |-> "none", conflict |-> FALSE, lost |-> {}]

ConcMsgs ==
  {[uuid |-> u, sample_time |-> sh[1], tzoff |-> 0, sku |-> S1, workspace |-> W1,
    user |-> NULL, rate |-> sh[2]] :
     u \in {2, 3}, sh \in {<<3, 4>>, <<5, 1>>}}

SeededDb ==
  [EmptyDb EXCEPT
     !.billing_item = {ConfiguredItem(S1)},
     !.rate_sample = {[uuid |-> 1, sample_time |-> 1, item_id |-> 1, user |-> NULL,
                       workspace |-> W1, rate |-> 2]}]

InitConc ==
  /\ db \in {EmptyDb, SeededDb}
  /\ last = NoReport
  /\ handled = 0
  /\ worker = [w \in Workers |-> Idle]
  /\ page = NoPage

\* the exception leaves process_payload: the open session is rolled back
Fail(w, exc, conflict) ==
  worker' = [worker EXCEPT ![w].pc = "idle", ![w].exc = exc,
                           ![w].outcome = consume(exc), ![w].conflict = conflict,
                           ![w].lost = worker[w].flushed \cup worker[w].added,
                           ![w].flushed = {}, ![w].added = {}]

\* a worker takes the next message: process_payload starts
Receive(w) ==
  \E m \in ConcMsgs :
    /\ worker[w].pc = "idle"
    /\ handled < MaxStarted
    /\ worker' = [worker EXCEPT ![w] = [Idle EXCEPT !.pc = "insert", !.msg = m]]
    /\ handled' = handled + 1
    /\ UNCHANGED <<db, last, page>>

\* _record_event: _try_record_event, first attempt or retry
TryRecord(w) ==
  /\ worker[w].pc = "insert"
  /\ \E r \in {sample_try_record_event(db, worker[w].msg)} :
        /\ db' = r.db
        /\ IF r.exc = "IntegrityError" /\ worker[w].attempts = 0
           THEN worker' = [worker EXCEPT ![w].pc = "add_sku", ![w].attempts = 1,
                                         ![w].unknown = TRUE]
           ELSE IF r.exc # "none" THEN Fail(w, r.exc, FALSE)
           ELSE worker' = [worker EXCEPT ![w].pc = "begin", ![w].attempts = @ + 1]
  /\ UNCHANGED <<last, handled, page>>

\* _record_event: _add_observed_sku
AddObservedSku(w) ==
  /\ worker[w].pc = "add_sku"
  /\ db' = add_observed_sku(db, worker[w].msg.sku).db
  /\ worker' = [worker EXCEPT ![w].pc = "insert"]
  /\ UNCHANGED <<last, handled, page>>

\* _generate_new_estimates up to the loop
EstBegin(w) ==
  /\ worker[w].pc = "begin"
  /\ \E m \in {worker[w].msg} : \E b \in {est_begin(db, m.workspace, m.sku)} :
        IF b.exc # "none" THEN Fail(w, b.exc, FALSE)
        ELSE worker' = [worker EXCEPT ![w].pc = "loop",
                                      ![w].item = item_subquery(db, m.sku),
                                      ![w].generate_from = b.ret]
  /\ UNCHANGED <<db, last, handled, page>>

\* the INSERT of w's added rows has to wait for another open session
waits(w) ==
  \E o \in Workers \ {w} : \E row \in worker[w].added :
    event_constraints_ok(row) /\ pk_conflict(worker[o].flushed, row.uuid)

hits_stored_uuid(w) ==
  \E row \in worker[w].added : pk_conflict(db.billing_event, row.uuid)

\* one turn of the while loop: the query of calculate_consumption_for_interval
\* flushes the row added in the turn before, then session.add
EstWindow(w) ==
  /\ worker[w].pc = "loop"
  /\ next_generate_to(worker[w].generate_from) <= generate_upto(worker[w].msg)
  /\ ~waits(w)
  /\ \E m \in {worker[w].msg}, generate_from \in {worker[w].generate_from} :
     \E generate_to \in {next_generate_to(generate_from)},
        f \in {flush(db, worker[w].flushed, worker[w].added)} :
     \E c \in {calculate_consumption_for_interval(db, m.workspace, m.sku,
                                                  generate_from, generate_to)} :
     \E row \in {estimate_row(worker[w].item, m.workspace, m.sku,
                              generate_from, generate_to, c.ret)} :
        IF f.exc # "none" THEN Fail(w, f.exc, hits_stored_uuid(w))
        ELSE IF c.exc # "none" THEN Fail(w, c.exc, FALSE)
        ELSE worker' = [worker EXCEPT ![w].flushed = f.flushed, ![w].added = {row},
                                      ![w].generate_from = generate_to]
  /\ UNCHANGED <<db, last, handled, page>>

\* the loop has ended: session.commit() flushes the last row and commits
EstCommit(w) ==
  /\ worker[w].pc = "loop"
  /\ next_generate_to(worker[w].generate_from) > generate_upto(worker[w].msg)
  /\ ~waits(w)
  /\ \E f \in {flush(db, worker[w].flushed, worker[w].added)} :
        IF f.exc # "none"
        THEN Fail(w, f.exc, hits_stored_uuid(w)) /\ db' = db
        ELSE /\ db' = [db EXCEPT !.billing_event = @ \cup f.flushed]
             /\ worker' = [worker EXCEPT ![w].pc = "idle", ![w].outcome = "ok",
                                         ![w].flushed = {}, ![w].added = {}]
  /\ UNCHANGED <<last, handled, page>>

NextConc ==
  \E w \in Workers :
    \/ Receive(w)
    \/ TryRecord(w)
    \/ AddObservedSku(w)
    \/ EstBegin(w)
    \/ EstWindow(w)
    \/ EstCommit(w)

SpecConc == InitConc /\ [][NextConc]_vars

----------------------------------------------------------------------------
(* Properties of concurrent sample handlers *)

is_estimate(d, e) ==
  e.user = NULL /\ e.uuid >= CharBase

\* C4: whatever the interleaving of sample handlers, the store never holds two
\* estimated billing events with the same workspace, sku and event_start.
C4_NoDuplicateWindows ==
  \A e, f \in db.billing_event :
    (/\ is_estimate(db, e) /\ is_estimate(db, f)
     /\ e.workspace = f.workspace
     /\ sku_of(db, e.item_id) = sku_of(db, f.item_id)
     /\ e.event_start = f.event_start)
    => e = f

\* two handlers computed the same window, one committed it and the other ran
\* into it
C4_Witness ==
  \E w \in Workers :
    /\ worker[w].conflict
    /\ \E row \in worker[w].lost, e \in db.billing_event :
         e.uuid = row.uuid /\ e.event_start = row.event_start

\* C5: when the estimator stores a window whose uuid is already present, the
\* insert is a no-op: the handler still ends with outcome ok and none of the
\* other windows of its run is lost.
C5_ConflictingInsertIsNoOp ==
  \A w \in Workers :
    (worker[w].pc = "idle" /\ worker[w].conflict)
    => (/\ worker[w].outcome = "ok"
        /\ \A row \in worker[w].lost : pk_conflict(db.billing_event, row.uuid))

\* C10: once every handler has finished, a sku that messages found unknown has
\* exactly one BillingItem and each of those messages is recorded.
C10_OneStubPerSku ==
  (\A w \in Workers : worker[w].pc = "idle")
  => \A w \in Workers :
       worker[w].unknown
       => /\ Cardinality({i \in db.billing_item : i.sku = worker[w].msg.sku}) = 1
          /\ pk_conflict(db.rate_sample, worker[w].msg.uuid)

----------------------------------------------------------------------------
(* One series: sample messages for one workspace and sku, handled in turn *)

MaxSeries == 3

SeriesUuids == {1, 2, 3}
\* <<sample_time, rate>>
SeriesShapes == {<<1, 2>>, <<3, 4>>, <<5, 1>>}

SeriesMsgs ==
  {[uuid |-> u, sample_time |-> sh[1], tzoff |-> 0, sku |-> S1, workspace |-> W1,
    user |-> NULL, rate |-> sh[2]] :
     u \in SeriesUuids, sh \in SeriesShapes}

\* a discrete event of the billing-events topic for the pair, ending at 00:30
DiscreteEvent ==
  [uuid |-> 1, event_start |-> 0, event_end |-> 1, item_id |-> 1, user |-> NULL,
   workspace |-> W1, quantity |-> RatInt(1)]

Handling(m) == [pc |-> "done", msg |-> m]

InitSeries ==
  /\ db \in {[EmptyDb EXCEPT !.billing_item = {ConfiguredItem(S1)}],
             [EmptyDb EXCEPT !.billing_item = {ConfiguredItem(S1)},
                             !.billing_event = {DiscreteEvent}]}
  /\ last = NoReport
  /\ handled = 0
  /\ worker = Handling(NoMsg)
  /\ page = NoPage

\* ConsumptionSampleRateIngesterMessager.process_payload for one message
HandleSeriesSample ==
  \E m \in SeriesMsgs :
    /\ handled < MaxSeries
    /\ \E r \in {sample_process_payload(db, m)} :
          /\ db' = r.db
          /\ last' = Report("sample", m.uuid, m.sku, m.workspace, generate_upto(m), db, r,
                           r.attempts, r.created)
    /\ handled' = handled + 1
    /\ worker' = Handling(m)
    /\ UNCHANGED page

NextSeries == HandleSeriesSample

SpecSeries == InitSeries /\ [][NextSeries]_vars

----------------------------------------------------------------------------
(* Properties of the windows the estimator generates *)

pair_events(d, workspace, sku) ==
  {e \in d.billing_event : e.workspace = workspace /\ sku_of(d, e.item_id) = sku}

pair_samples(d, workspace, sku) ==
  {s \in d.rate_sample : s.workspace = workspace /\ sku_of(d, s.item_id) = sku}

\* the clock hours [H, H + 1h) with from <= H and H + 1h <= upto
hour_windows(from, upto) ==
  {<<H, H + HOUR>> : H \in {h \in from..upto : h = floor_to_hour(h) /\ h + HOUR <= upto}}

spans(E) == {<<e.event_start, e.event_end>> : e \in E}

\* what a handled sample message with time t leaves for its pair: with no
\* event before, one event for each clock hour from the hour of the earliest
\* sample up to the hour of t and nothing else; with events before, new
\* windows that start at the latest event_end
WindowsOf(m) ==
  LET before == pair_events(db, m.workspace, m.sku)
      after == pair_events(db', m.workspace, m.sku)
      S == pair_samples(db', m.workspace, m.sku)
  IN /\ (before = {} /\ S # {})
        => /\ spans(after)
                = hour_windows(floor_to_hour(Min({s.sample_time : s \in S})),
                               floor_to_hour(m.sample_time))
           /\ Cardinality(after) = Cardinality(spans(after))
     /\ (before # {} /\ after # before)
        => /\ before \subseteq after
           /\ Min({e.event_start : e \in after \ before})
                = Max({e.event_end : e \in before})

C12_EstimatesCoverOneClockHour ==
  \A e \in db.billing_event :
    is_estimate(db, e)
    => (e.event_start = floor_to_hour(e.event_start)
        /\ e.event_end = e.event_start + HOUR)

C15_NoBackfill ==
  [][(/\ handled' = handled + 1
      /\ find_latest_billing_event(db, worker'.msg.workspace, worker'.msg.sku) # NULL
      /\ worker'.msg.sample_time
           < find_latest_billing_event(db, worker'.msg.workspace, worker'.msg.sku))
     => (/\ db'.billing_event = db.billing_event
         /\ last'.outcome = "ok"
         /\ \E s \in db'.rate_sample : s.uuid = worker'.msg.uuid)]_vars

\* after the windows up to 02:00 were generated, a new sample at 01:30 has been
\* recorded and the events are the two estimates generated before
C15_Witness ==
  /\ last.kind = "sample" /\ ~last.dup /\ last.outcome = "ok" /\ last.created = {}
  /\ worker.msg.sample_time = 3
  /\ \E s \in db.rate_sample : s.uuid = worker.msg.uuid /\ s.sample_time = 3
  /\ spans({e \in db.billing_event : is_estimate(db, e)}) = {<<0, 2>>, <<2, 4>>}

----------------------------------------------------------------------------
(* Sample messages whose sample_time carries a zone offset: sample_time is    *)
(* the instant, tzoff what the offset adds to it on the wall clock, so       *)
(* "02:30+01:00" is the instant 01:30 with tzoff one hour.                   *)

MaxZoned == 2

ZonedMsgs ==
  {[uuid |-> u, sample_time |-> sh[1], tzoff |-> off, sku |-> S1, workspace |-> W1,
    user |-> NULL, rate |-> sh[2]] :
     u \in SeriesUuids, sh \in SeriesShapes, off \in {0, HOUR}}

InitZone ==
  /\ db = [EmptyDb EXCEPT !.billing_item = {ConfiguredItem(S1)}]
  /\ last = NoReport
  /\ handled = 0
  /\ worker = Handling(NoMsg)
  /\ page = NoPage

\* ConsumptionSampleRateIngesterMessager.process_payload for one message
HandleZonedSample ==
  \E m \in ZonedMsgs :
    /\ handled < MaxZoned
    /\ \E r \in {sample_process_payload(db, m)} :
          /\ db' = r.db
          /\ last' = Report("sample", m.uuid, m.sku, m.workspace, generate_upto(m), db, r,
                           r.attempts, r.created)
    /\ handled' = handled + 1
    /\ worker' = Handling(m)
    /\ UNCHANGED page

NextZone == HandleZonedSample

SpecZone == InitZone /\ [][NextZone]_vars

\* C13: the handler's upto is the start of the UTC clock hour that contains
\* the instant of the message's sample_time, whatever offset the message
\* writes it with, and no window it generates ends after that hour.
C13_UptoIsUtcHourOfInstant ==
  last.kind = "sample"
  => (/\ last.upto = floor_to_hour(worker.msg.sample_time)
      /\ \A e \in last.created : e.event_end <= floor_to_hour(worker.msg.sample_time))

----------------------------------------------------------------------------
(* The interval functions applied to stores of samples.  A sample is stored  *)
(* for (W1, S1); every store also holds a sample of another workspace and a  *)
(* sample of another sku.                                                    *)

MaxSamples == 3

\* <<sample_time, rate>>
CalcShapes ==
  {<<0, 3>>, <<1, 2>>, <<2, 1>>, <<3, 4>>, <<3, 1>>, <<5, 0>>, <<6, 2>>, <<8, 1>>}

\* <<start, end>>
Windows == {<<2, 6>>, <<0, 10>>, <<12, 24>>}

SampleOf(sh, workspace, item_id) ==
  [uuid |-> 1 + sh[1] * CharBase + sh[2], sample_time |-> sh[1], item_id |-> item_id,
   user |-> NULL, workspace |-> workspace, rate |-> sh[2]]

SampleStore(shapes) ==
  [EmptyDb EXCEPT
     !.billing_item = {ConfiguredItem(S1),
                       [uuid |-> 2, sku |-> S2, name |-> CfgName, unit |-> CfgUnit]},
     !.rate_sample = {SampleOf(sh, W1, 1) : sh \in shapes}
                       \cup {SampleOf(<<3, 9>>, W2, 1), SampleOf(<<4, 9>>, W1, 2)}]

\* in units of five minutes: samples at 00:55, 01:15, 01:25, 01:50 and 02:05,
\* for the window [01:00, 02:00) = <<12, 24>>
ExampleDb16 == SampleStore({<<11, 2>>, <<15, 3>>, <<17, 4>>, <<22, 2>>, <<25, 1>>})

\* in units of five minutes: samples at 00:45 and 00:55, for the window
\* [00:00, 00:50) = <<0, 10>>
ExampleDb17 == SampleStore({<<9, 1>>, <<11, 2>>})

Call(start, end) == [pc |-> "done", start |-> start, end |-> end]

InitInterval ==
  /\ db \in {SampleStore(shapes) :
               shapes \in {T \in SUBSET CalcShapes : Cardinality(T) <= MaxSamples}}
            \cup {ExampleDb16, ExampleDb17}
  /\ last = NoReport
  /\ handled = 0
  /\ worker = Call(NULL, NULL)
  /\ page = NoPage

\* calculate_consumption_for_interval(session, W1, S1, start, end)
Calculate ==
  \E w \in Windows :
    /\ handled = 0
    /\ \E r \in {calculate_consumption_for_interval(db, W1, S1, w[1], w[2])} :
          last' = [NoReport EXCEPT !.kind = "calc", !.exc = r.exc, !.ret = r.ret,
                                   !.outcome = consume(r.exc)]
    /\ worker' = Call(w[1], w[2])
    /\ handled' = 1
    /\ UNCHANGED <<db, page>>

\* find_data_for_interval(session, W1, S1, start, end), with either driver
FindData ==
  \E w \in Windows :
    /\ handled = 0
    /\ \E rows \in {find_data_for_interval(db, W1, S1, w[1], w[2])}
                     \cup find_data_for_interval_sqlite(db, W1, S1, w[1], w[2]) :
          last' = [NoReport EXCEPT !.kind = "find", !.ret = rows]
    /\ worker' = Call(w[1], w[2])
    /\ handled' = 1
    /\ UNCHANGED <<db, page>>

NextInterval ==
  \/ Calculate
  \/ FindData

SpecInterval == InitInterval /\ [][NextInterval]_vars

----------------------------------------------------------------------------
(* Properties of the interval functions *)

series(d) == {s \in d.rate_sample : s.workspace = W1 /\ sku_of(d, s.item_id) = S1}

distinct_times(P) == \A p, q \in P : p.sample_time = q.sample_time => p = q

has_before(P, start) == \E s \in P : s.sample_time <= start
has_after(P, end) == \E s \in P : s.sample_time >= end

\* the piecewise-linear rate through the samples P at time t, for t between
\* the first and the last sample
rate_at(P, t) ==
  LET lo == CHOOSE s \in P : s.sample_time <= t
                 /\ \A q \in P : q.sample_time <= t => q.sample_time <= s.sample_time
      hi == CHOOSE s \in P : s.sample_time >= t
                 /\ \A q \in P : q.sample_time >= t => q.sample_time >= s.sample_time
  IN IF lo.sample_time = hi.sample_time THEN RatInt(lo.rate)
     ELSE RatAdd(RatInt(lo.rate),
                 RatMul(Rat(t - lo.sample_time, hi.sample_time - lo.sample_time),
                        RatInt(hi.rate - lo.rate)))

\* the sum of the trapezoids of the rate between the consecutive times of B
RECURSIVE trapezoids(_, _)
trapezoids(P, B) ==
  IF Cardinality(B) <= 1 THEN RatInt(0)
  ELSE LET a == Min(B)
           b == Min(B \ {a})
       IN RatAdd(RatMul(RatInt(b - a),
                        RatMul(RatAdd(rate_at(P, a), rate_at(P, b)), Rat(1, 2))),
                 trapezoids(P, B \ {a}))

\* the integral over [start, end) of the rate that is piecewise linear through
\* the samples, 0 before the first sample and 0 after the last
integral(P, start, end) ==
  LET times == {s.sample_time : s \in P}
      from == IF has_before(P, start) THEN start ELSE Min(times)
      to == IF has_after(P, end) THEN end ELSE Max(times)
  IN trapezoids(P, {from, to} \cup {t \in times : from < t /\ t < to})

C18_IntervalRowsInTimeOrder ==
  last.kind = "find"
  => LET rows == last.ret
         R == {rows[k] : k \in 1..Len(rows)}
         P == series(db)
         inside == {s \in P : worker.start < s.sample_time /\ s.sample_time < worker.end}
         lasts == {s \in P : /\ s.sample_time <= worker.start
                             /\ \A q \in P : q.sample_time <= worker.start
                                             => q.sample_time <= s.sample_time}
         firsts == {s \in P : /\ s.sample_time >= worker.end
                              /\ \A q \in P : q.sample_time >= worker.end
                                              => q.sample_time >= s.sample_time}
     IN /\ \A k \in 1..(Len(rows) - 1) : rows[k].sample_time <= rows[k + 1].sample_time
        /\ Len(rows) = Cardinality(R)
        /\ inside \subseteq R
        /\ R \subseteq inside \cup lasts \cup firsts
        /\ Cardinality(R \cap lasts) = IF lasts = {} THEN 0 ELSE 1
        /\ Cardinality(R \cap firsts) = IF firsts = {} THEN 0 ELSE 1

----------------------------------------------------------------------------
(* The price query: BillingItemPrice.find_prices *)

find_prices_until_inclusive(d, at) ==
  LET R == {<<p, i.sku>> : p \in {q \in d.billing_item_price :
                                    /\ q.valid_from <= at
                                    /\ (q.valid_until = NULL \/ q.valid_until >= at)},
                           i \in d.billing_item}
      J == {x \in R : \E i \in d.billing_item : i.uuid = x[1].item_id /\ i.sku = x[2]}
  IN {f \in row_orders(J) :
        \A k \in 1..(Len(f) - 1) :
          \/ str_less(f[k][2], f[k + 1][2])
          \/ (f[k][2] = f[k + 1][2] /\ f[k][1].valid_from <= f[k + 1][1].valid_from)}

\* BillingItemPrice.find_prices: the prices valid at 'at', each with the sku
\* of its item, ORDER BY sku, valid_from; every list the query may return
find_prices(d, at) ==
  LET R == {<<p, i.sku>> : p \in {q \in d.billing_item_price :
                                    /\ q.valid_from <= at
                                    /\ (q.valid_until = NULL \/ q.valid_until > at)},
                           i \in d.billing_item}
      J == {x \in R : \E i \in d.billing_item : i.uuid = x[1].item_id /\ i.sku = x[2]}
  IN {f \in row_orders(J) :
        \A k \in 1..(Len(f) - 1) :
          \/ str_less(f[k][2], f[k + 1][2])
          \/ (f[k][2] = f[k + 1][2] /\ f[k][1].valid_from <= f[k + 1][1].valid_from)}

\* the instants a price query is made at
PriceInstants == 0..4

\* C21: at every instant, find_prices returns exactly the prices with
\* valid_from <= at and valid_until open or later than at, each once and with
\* the sku of its item, ordered by sku and then valid_from; in a store filled
\* by configuration loads only, no two returned prices have the same sku.
C21_CurrentPrices ==
  \A at \in PriceInstants :
    \A rows \in find_prices(db, at) :
      LET valid == {p \in db.billing_item_price :
                      /\ p.valid_from <= at
                      /\ (p.valid_until = NULL \/ at < p.valid_until)}
      IN /\ {rows[k][1] : k \in 1..Len(rows)} = valid
         /\ Len(rows) = Cardinality(valid)
         /\ \A k \in 1..Len(rows) : rows[k][2] = sku_of(db, rows[k][1].item_id)
         /\ \A k \in 1..(Len(rows) - 1) :
              \/ str_less(rows[k][2], rows[k + 1][2])
              \/ (rows[k][2] = rows[k + 1][2]
                  /\ rows[k][1].valid_from <= rows[k + 1][1].valid_from)
         /\ \A k, l \in 1..Len(rows) : rows[k][2] = rows[l][2] => k = l

\* both skus have a price; at the instant the first price of S1 ends the
\* query returns its successor for S1, before the price of S2
C21_Witness ==
  \E at \in PriceInstants :
    /\ \E p \in db.billing_item_price : p.valid_until = at
    /\ \E rows \in find_prices(db, at) :
         /\ Len(rows) = 2
         /\ rows[1][2] = S1 /\ rows[2][2] = S2
         /\ rows[1][1].valid_from = at

----------------------------------------------------------------------------
(* The ingester fed with messages that may be ill-formed: a uuid or user     *)
(* string that is no UUID, an event that ends before it starts.              *)

\* <<event_start, event_end, quantity>>
AnyEventShapes == {<<0, 1, 1>>, <<2, 1, 1>>}
\* <<sample_time, rate>>
AnySampleShapes == {<<1, 2>>, <<3, 4>>}

AnyEventMsgs ==
  {[uuid |-> u, event_start |-> sh[1], event_end |-> sh[2], sku |-> s,
    workspace |-> W1, user |-> usr, quantity |-> sh[3]] :
     u \in {1, BadUuid}, sh \in AnyEventShapes, s \in {S1, S2}, usr \in {NULL, BadUuid}}

AnySampleMsgs ==
  {[uuid |-> u, sample_time |-> sh[1], tzoff |-> 0, sku |-> s, workspace |-> W1,
    user |-> NULL, rate |-> sh[2]] :
     u \in {1, BadUuid}, sh \in AnySampleShapes, s \in {S1, S2}}

AnyWsMsgs == {[name |-> W1, account |-> a] : a \in {1, BadUuid}}

InitAny ==
  /\ db \in {EmptyDb, [EmptyDb EXCEPT !.billing_item = {ConfiguredItem(S1)}]}
  /\ last = NoReport
  /\ handled = 0
  /\ worker = NoWorker
  /\ page = NoPage

HandleAnyBillingEvent ==
  \E m \in AnyEventMsgs :
    /\ handled < MaxHandled
    /\ \E r \in {be_process_payload(db, m)} :
          /\ db' = r.db
          /\ last' = Report("event", m.uuid, m.sku, m.workspace, NULL, db, r, r.attempts, {})
    /\ worker' = Handling(m)
    /\ handled' = handled + 1
    /\ UNCHANGED page

HandleAnyWorkspaceSettings ==
  \E m \in AnyWsMsgs :
    /\ handled < MaxHandled
    /\ \E r \in {ws_process_payload(db, m)} :
          /\ db' = r.db
          /\ last' = Report("ws", m.account, EMPTY, m.name, NULL, db, r, 1, {})
    /\ worker' = Handling(m)
    /\ handled' = handled + 1
    /\ UNCHANGED page

HandleAnyRateSample ==
  \E m \in AnySampleMsgs :
    /\ handled < MaxHandled
    /\ \E r \in {sample_process_payload(db, m)} :
          /\ db' = r.db
          /\ last' = Report("sample", m.uuid, m.sku, m.workspace, generate_upto(m), db, r,
                           r.attempts, r.created)
    /\ worker' = Handling(m)
    /\ handled' = handled + 1
    /\ UNCHANGED page

NextAny ==
  \/ HandleAnyBillingEvent
  \/ HandleAnyWorkspaceSettings
  \/ HandleAnyRateSample

SpecAny == InitAny /\ [][NextAny]_vars

\* C22: a message handled with a uuid string that is no UUID (the uuid of an
\* event or of a sample, the account of a workspace message) leaves the
\* store as it was, no event, sample, item or mapping added, and is reported
\* as a permanent failure.
C22_BadUuidIsPermanent ==
  [][(handled' = handled + 1 /\ ~uuid_parses(last'.uuid))
     => (db' = db /\ last'.outcome = "permanent")]_vars

\* an event message with a bad uuid and a sku the store does not know was
\* just handled, after a message that had been recorded
C22_Witness ==
  /\ last.kind = "event" /\ ~uuid_parses(last.uuid) /\ ~last.known
  /\ last.outcome = "permanent"
  /\ db.billing_event # {}

\* C30: an event message whose insert raises IntegrityError again after the
\* stub item was added (it ends before it starts) is tried twice and no more,
\* and the IntegrityError leaves the handler: a permanent failure.
C30_SecondIntegrityErrorIsPermanent ==
  (/\ last.kind = "event"
   /\ uuid_parses(worker.msg.uuid) /\ user_parses(worker.msg.user)
   /\ worker.msg.event_start > worker.msg.event_end)
  => (/\ last.exc = "IntegrityError"
      /\ last.attempts = 2
      /\ last.outcome = "permanent"
      /\ \A e \in db.billing_event : e.event_start <= e.event_end)

\* such a message was just handled and the stub of its sku is in the store
C30_Witness ==
  /\ last.kind = "event" /\ last.exc = "IntegrityError" /\ last.attempts = 2
  /\ worker.msg.event_start > worker.msg.event_end
  /\ ~last.known
  /\ \E i \in db.billing_item : i.sku = worker.msg.sku /\ i.name = EMPTY

----------------------------------------------------------------------------
(* The ingester while the store is at times unreachable.  A session that     *)
(* cannot reach the store raises OperationalError and commits nothing; what  *)
(* earlier sessions of the same handler run committed stays.  A message      *)
(* reported as a temporary failure is delivered again later.                 *)

\* the sessions one handler run opens, at most: first insert, stub item,
\* retried insert, estimator
Sessions == 4

OperationalError(d, n) == Attempted(Result("OperationalError", NULL, d), n)

\* AccountingIngesterMessager.process_payload when only the first 'reach'
\* sessions of the run reach the store
be_process_payload_reaching(d, bemsg, reach) ==
  IF reach = 0 THEN OperationalError(d, 1)
  ELSE The({IF r1.exc # "IntegrityError" THEN Attempted(r1, 1)
            ELSE IF reach = 1 THEN OperationalError(d, 1)
            ELSE IF reach = 2 THEN OperationalError(add_observed_sku(d, bemsg.sku).db, 2)
            ELSE Attempted(try_record_event(add_observed_sku(d, bemsg.sku).db, bemsg), 2) :
              r1 \in {try_record_event(d, bemsg)}})

Used(r, n) ==
  [exc |-> r.exc, ret |-> r.ret, db |-> r.db, attempts |-> r.attempts, used |-> n]

\* ConsumptionSampleRateIngesterMessager._record_event, likewise; 'used' is
\* the number of sessions the run opened
record_event_reaching(d, msg, reach) ==
  IF reach = 0 THEN Used(OperationalError(d, 1), 1)
  ELSE The({IF r1.exc # "IntegrityError" THEN Used(Attempted(r1, 1), 1)
            ELSE IF reach = 1 THEN Used(OperationalError(d, 1), 2)
            ELSE IF reach = 2
            THEN Used(OperationalError(add_observed_sku(d, msg.sku).db, 2), 3)
            ELSE Used(Attempted(sample_try_record_event(add_observed_sku(d, msg.sku).db,
                                                        msg), 2), 3) :
              r1 \in {sample_try_record_event(d, msg)}})

\* ConsumptionSampleRateIngesterMessager.process_payload, likewise
sample_process_payload_reaching(d, msg, reach) ==
  The({IF r.exc # "none"
       THEN [exc |-> r.exc, ret |-> r.ret, db |-> r.db, attempts |-> r.attempts,
             created |-> {}]
       ELSE IF reach <= r.used
       THEN [exc |-> "OperationalError", ret |-> r.ret, db |-> r.db,
             attempts |-> r.attempts, created |-> {}]
       ELSE The({[exc |-> g.exc, ret |-> r.ret, db |-> g.db, attempts |-> r.attempts,
                  created |-> g.ret] :
                   g \in {generate_new_estimates(r.db, msg.workspace, msg.sku,
                                                 generate_upto(msg))}}) :
         r \in {record_event_reaching(d, msg, reach)}})

\* the handler of a delivery, by the kind of its message
process_payload_reaching(d, dl, reach) ==
  IF dl.kind = "event"
  THEN The({[exc |-> x.exc, ret |-> x.ret, db |-> x.db, attempts |-> x.attempts,
             created |-> {}] :
              x \in {be_process_payload_reaching(d, dl.msg, reach)}})
  ELSE sample_process_payload_reaching(d, dl.msg, reach)

\* <<uuid, event_start, event_end, quantity>>
OutageEventShapes == {<<1, 0, 1, 1>>, <<2, 1, 3, 2>>}
\* <<uuid, sample_time, rate>>
OutageSampleShapes == {<<1, 1, 2>>, <<2, 3, 4>>}

OutageEventMsgs ==
  {[uuid |-> sh[1], event_start |-> sh[2], event_end |-> sh[3], sku |-> S1,
    workspace |-> W1, user |-> NULL, quantity |-> sh[4]] :
     sh \in OutageEventShapes}

OutageSampleMsgs ==
  {[uuid |-> sh[1], sample_time |-> sh[2], tzoff |-> 0, sku |-> S1, workspace |-> W1,
    user |-> NULL, rate |-> sh[3]] :
     sh \in OutageSampleShapes}

Delivery(kind, m) == [kind |-> kind, msg |-> m]

\* the broker: the messages waiting for redelivery, the delivery handled
\* last, whether it was a redelivery and how many sessions reached the store
Broker(pending, delivery, redelivered, reach) ==
  [pending |-> pending, delivery |-> delivery, redelivered |-> redelivered,
   reach |-> reach]

InitOutage ==
  /\ db \in {EmptyDb, [EmptyDb EXCEPT !.billing_item = {ConfiguredItem(S1)}]}
  /\ last = NoReport
  /\ handled = 0
  /\ worker = Broker({}, Delivery("none", NoMsg), FALSE, Sessions)
  /\ page = NoPage

\* one handler run for the delivery dl
Consume(dl, redelivered) ==
  \E reach \in 0..Sessions :
    /\ handled < MaxHandled
    /\ \E r \in {process_payload_reaching(db, dl, reach)} :
          /\ db' = r.db
          /\ last' = Report(dl.kind, dl.msg.uuid, dl.msg.sku, dl.msg.workspace, NULL, db, r,
                           r.attempts, r.created)
          /\ worker' = Broker(IF consume(r.exc) = "temporary"
                              THEN worker.pending \cup {dl}
                              ELSE worker.pending \ {dl},
                              dl, redelivered, reach)
    /\ handled' = handled + 1
    /\ UNCHANGED page

DeliverBillingEvent ==
  \E m \in OutageEventMsgs :
    Delivery("event", m) \notin worker.pending /\ Consume(Delivery("event", m), FALSE)

DeliverRateSample ==
  \E m \in OutageSampleMsgs :
    Delivery("sample", m) \notin worker.pending /\ Consume(Delivery("sample", m), FALSE)

Redeliver ==
  \E dl \in worker.pending : Consume(dl, TRUE)

NextOutage ==
  \/ DeliverBillingEvent
  \/ DeliverRateSample
  \/ Redeliver

SpecOutage == InitOutage /\ [][NextOutage]_vars

\* C23: a handler run that ends with OperationalError is reported as a
\* temporary failure, never a permanent one, and its message waits for
\* redelivery; a run that cannot reach the store at all ends so and leaves
\* the store as it was; and a redelivered message handled while every
\* session reaches the store is recorded (a row with its uuid is stored) and
\* waits no longer, an event message with outcome ok.
C23_OperationalErrorIsTransient ==
  [][handled' = handled + 1
     => /\ last'.exc = "OperationalError"
           => (last'.outcome = "temporary" /\ worker'.delivery \in worker'.pending)
        /\ worker'.reach = 0 => (last'.exc = "OperationalError" /\ db' = db)
        /\ (worker'.redelivered /\ worker'.reach = Sessions)
           => /\ pk_conflict(Stored(last'.kind, db'), last'.uuid)
              /\ last'.outcome # "temporary"
              /\ worker'.delivery \notin worker'.pending
              /\ last'.kind = "event" => last'.outcome = "ok"]_vars

\* a sample message was redelivered after a run that had stored the sample
\* and then lost the store: the redelivery finds the sample stored, generates
\* the estimates and nothing waits for redelivery any more
C23_Witness ==
  /\ worker.redelivered /\ worker.reach = Sessions
  /\ last.kind = "sample" /\ last.dup /\ last.created # {}
  /\ last.outcome = "ok"
  /\ worker.pending = {}

----------------------------------------------------------------------------
(* Event messages as they are written: a timestamp is a wall-clock reading   *)
(* with or without a UTC offset, the user a string that may be empty.        *)

\* datetime.fromisoformat(s): tzinfo is <<>> for a string without a zone,
\* <<offset>> otherwise
Naive(wall) == [wall |-> wall, tzinfo |-> <<>>]
Zoned(wall, offset) == [wall |-> wall, tzinfo |-> <<offset>>]

datetime_default_to_utc_shifted(dt) ==
  IF dt.tzinfo = <<>> THEN [dt EXCEPT !.tzinfo = <<HOUR>>] ELSE dt

\* models.datetime_default_to_utc
datetime_default_to_utc(dt) ==
  IF dt.tzinfo = <<>> THEN [dt EXCEPT !.tzinfo = <<0>>] ELSE dt

\* the instant a TIMESTAMP(timezone=True) column keeps for an aware datetime
timestamptz(dt) == dt.wall - dt.tzinfo[1]

\* the values insert_from_message computes from the strings of the message
from_wire(w) ==
  [uuid |-> w.uuid,
   event_start |-> timestamptz(datetime_default_to_utc(w.event_start)),
   event_end |-> timestamptz(datetime_default_to_utc(w.event_end)),
   sku |-> w.sku, workspace |-> w.workspace,
   user |-> IF w.user = <<>> THEN NULL ELSE w.user[1],
   quantity |-> w.quantity]

WireStarts == {Naive(0), Zoned(2, HOUR), Zoned(1, 0)}
WireEnds == {Naive(1), Zoned(4, HOUR)}

WireEventMsgs ==
  {[uuid |-> u, event_start |-> st, event_end |-> en, sku |-> S1, workspace |-> W1,
    user |-> usr, quantity |-> u + 1] :
     u \in EventUuids, st \in WireStarts, en \in WireEnds, usr \in {<<>>, <<5>>}}

\* the default page size of find_billing_events
DefaultLimit == 5000

InitWire ==
  /\ db \in {EmptyDb, [EmptyDb EXCEPT !.billing_item = {ConfiguredItem(S1)}]}
  /\ last = NoReport
  /\ handled = 0
  /\ worker = NoWorker
  /\ page = NoPage

HandleWireBillingEvent ==
  \E w \in WireEventMsgs :
    /\ handled < MaxHandled
    /\ \E r \in {be_process_payload(db, from_wire(w))} :
          /\ db' = r.db
          /\ last' = Report("event", w.uuid, w.sku, w.workspace, NULL, db, r, r.attempts, {})
    /\ worker' = Handling(w)
    /\ handled' = handled + 1
    /\ UNCHANGED page

NextWire == HandleWireBillingEvent

SpecWire == InitWire /\ [][NextWire]_vars

\* the UTC instant a written timestamp denotes, one without a zone read as UTC
utc_instant(ts) == IF ts.tzinfo = <<>> THEN ts.wall ELSE ts.wall - ts.tzinfo[1]

----------------------------------------------------------------------------
(* The event query with its filters, on stores whose events belong to three  *)
(* workspaces: W1 mapped to account 1, W2 mapped to account 1 or 2, W3 to    *)
(* none.                                                                     *)

W3 == <<3>>

\* <<event_start, event_end, workspace>>
QueryShapes == {<<0, 1, W1>>, <<1, 2, W2>>, <<2, 3, W1>>, <<1, 3, W3>>}

QueryStarts == {NULL, 1}
QueryEnds == {NULL, 3}

\* the arguments of one call
Query(workspace, account, start, end, limit) ==
  [pc |-> "done", workspace |-> workspace, account |-> account, start |-> start,
   end |-> end, limit |-> limit]

InitQuery ==
  /\ \E shape \in [1..MaxEvents -> QueryShapes], a \in Accounts :
       db = [EmptyDb EXCEPT
               !.billing_item = {ConfiguredItem(S1)},
               !.billing_event = {page_event(u, shape[u]) : u \in 1..MaxEvents},
               !.workspace_account = {[workspace |-> W1, account |-> 1],
                                      [workspace |-> W2, account |-> a]}]
  /\ last = NoReport
  /\ handled = 0
  /\ worker = NoWorker
  /\ page = NoPage

FindBillingEvents ==
  \E workspace \in {NONE, W1, W2}, account \in {NULL} \cup Accounts,
     start \in QueryStarts, end \in QueryEnds, limit \in 1..MaxLimit :
    /\ handled = 0
    /\ last' = [NoReport EXCEPT
                  !.kind = "query",
                  !.ret = find_billing_events(db, workspace, account, start, end, NULL,
                                              limit)]
    /\ worker' = Query(workspace, account, start, end, limit)
    /\ handled' = 1
    /\ UNCHANGED <<db, page>>

NextQuery == FindBillingEvents

SpecQuery == InitQuery /\ [][NextQuery]_vars

\* rows holds min(limit, |matching|) distinct events of 'matching', in
\* ascending event_start order, and no event it leaves out starts before one
\* it holds
first_of(rows, matching, limit) ==
  LET R == {rows[k] : k \in 1..Len(rows)}
  IN /\ R \subseteq matching
     /\ Len(rows) = Cardinality(R)
     /\ Len(rows) = IF Cardinality(matching) <= limit THEN Cardinality(matching) ELSE limit
     /\ \A k \in 1..(Len(rows) - 1) : rows[k].event_start <= rows[k + 1].event_start
     /\ \A e \in matching \ R : \A f \in R : f.event_start <= e.event_start

mapped_to(d, workspace, account) ==
  \E wa \in d.workspace_account : wa.workspace = workspace /\ wa.account = account

\* C25: a query with account = A and no other filter returns the events whose
\* workspace the workspace map gives to A, in event_start order (the first
\* 'limit' of them when there are more); a query with account = A and any
\* other filters returns no event of a workspace mapped to another account
\* or to none.
C25_AccountFilter ==
  (last.kind = "query" /\ worker.account # NULL)
  => /\ \A k \in 1..Len(last.ret) :
          mapped_to(db, last.ret[k].workspace, worker.account)
     /\ (worker.workspace = NONE /\ worker.start = NULL /\ worker.end = NULL)
        => first_of(last.ret,
                    {e \in db.billing_event : mapped_to(db, e.workspace, worker.account)},
                    worker.limit)

\* W1 is held by account 1 and W2 by account 2; the store has events of W1,
\* W2 and W3, and the query for account 2 returned the event of W2 only
C25_Witness ==
  /\ last.kind = "query" /\ worker.account = 2
  /\ worker.workspace = NONE /\ worker.start = NULL /\ worker.end = NULL
  /\ mapped_to(db, W2, 2)
  /\ {e.workspace : e \in db.billing_event} = {W1, W2, W3}
  /\ Len(last.ret) = 1 /\ last.ret[1].workspace = W2

----------------------------------------------------------------------------
(* The HTTP API: the two usage-data endpoints.  last holds the response, the *)
(* status the server answers with and the rows of its body; an exception     *)
(* that is no HTTPException leaves the handler and the server answers 500.   *)

Response(status, body, exc) ==
  [kind |-> "http", status |-> status, body |-> body, exc |-> exc]

\* the Authorization header of a request
NoHeader == [scheme |-> "none"]
BasicHeader == [scheme |-> "Basic"]
Bearer(token) == [scheme |-> "Bearer", token |-> token]

\* a token that is no JWT
Garbage == [jwt |-> FALSE]
\* the claims of a JWT; realm_access is <<>> when the token has none,
\* <<roles>> otherwise; a missing list of workspaces or accounts reads as empty
Claims(workspaces, accounts, realm_access) ==
  [jwt |-> TRUE, workspaces |-> workspaces, accounts |-> accounts,
   realm_access |-> realm_access]

Tokens ==
  {Garbage}
    \cup {Claims(w, a, r) : w \in {{}, {W1}}, a \in {{}, {1}},
                            r \in {<<>>, <<{}>>, <<{"hub_admin"}>>}}

\* event.event_start.strftime("%Y-%m-%dT%H:%M:%SZ"): one character per instant
strftime(t) == <<TimeChar + t>>

\* app.billingevent_to_api_object
billingevent_to_api_object(d, event) ==
  [uuid |-> event.uuid, event_start |-> strftime(event.event_start),
   event_end |-> strftime(event.event_end), item |-> sku_of(d, event.item_id),
   workspace |-> event.workspace, quantity |-> event.quantity]

api_objects(d, rows) == [k \in 1..Len(rows) |-> billingevent_to_api_object(d, rows[k])]

\* app.decode_jwt_token: the claims, or the exception raised
decode_jwt_token(authorization) ==
  IF authorization.scheme = "none" THEN Result("HTTPException", 400, NULL)
  ELSE IF authorization.scheme # "Bearer" THEN Result("HTTPException", 400, NULL)
  ELSE IF ~authorization.token.jwt THEN Result("DecodeError", NULL, NULL)
  ELSE Result("none", authorization.token, NULL)

\* app.workspace_authz with require_owner = False
workspace_authz(workspace, token_payload, allow_hub_admin) ==
  IF token_payload.realm_access = <<>> THEN Result("KeyError", NULL, NULL)
  ELSE IF allow_hub_admin /\ "hub_admin" \in token_payload.realm_access[1]
  THEN Result("none", workspace, NULL)
  ELSE IF workspace \notin token_payload.workspaces
  THEN Result("HTTPException", 401, NULL)
  ELSE Result("none", workspace, NULL)

\* app.account_authz
account_authz(account_id, token_payload, allow_hub_admin) ==
  IF token_payload.realm_access = <<>> THEN Result("KeyError", NULL, NULL)
  ELSE IF allow_hub_admin /\ "hub_admin" \in token_payload.realm_access[1]
  THEN Result("none", account_id, NULL)
  ELSE IF account_id \notin token_payload.accounts
  THEN Result("HTTPException", 401, NULL)
  ELSE Result("none", account_id, NULL)

\* the parameters BillingEvent.find_billing_events declares
find_billing_events_parameters ==
  {"session", "workspace", "account", "start", "end", "after", "limit"}

\* the arguments the two handlers call it with
workspace_call_arguments ==
  {"session", "workspace", "start", "end", "limit", "after", "time_aggregation"}
account_call_arguments == {"session", "account", "start", "end", "limit", "after"}

\* a call with a keyword the function does not declare raises TypeError
call_accepted(arguments) == arguments \subseteq find_billing_events_parameters

\* what the server answers when the handler raised exc
raised(r) ==
  IF r.exc = "HTTPException" THEN Response(r.ret, <<>>, r.exc)
  ELSE Response(500, <<>>, r.exc)

\* app.get_workspace_usage_data
get_workspace_usage_data(d, req) ==
  The({IF t.exc # "none" THEN raised(t)
       ELSE The({IF a.exc # "none" THEN raised(a)
                 ELSE IF ~call_accepted(workspace_call_arguments)
                 THEN raised(Result("TypeError", NULL, NULL))
                 ELSE Response(200,
                               api_objects(d, find_billing_events(d, a.ret, NULL, NULL,
                                                                  NULL, NULL, req.limit)),
                               "none") :
                   a \in {workspace_authz(req.target, t.ret, TRUE)}}) :
         t \in {decode_jwt_token(req.authorization)}})

\* app.get_account_usage_data
get_account_usage_data(d, req) ==
  The({IF t.exc # "none" THEN raised(t)
       ELSE The({IF a.exc # "none" THEN raised(a)
                 ELSE IF ~call_accepted(account_call_arguments)
                 THEN raised(Result("TypeError", NULL, NULL))
                 ELSE Response(200,
                               api_objects(d, find_billing_events(d, NONE, a.ret, NULL,
                                                                  NULL, NULL, req.limit)),
                               "none") :
                   a \in {account_authz(req.target, t.ret, TRUE)}}) :
         t \in {decode_jwt_token(req.authorization)}})

\* <<event_start, event_end, workspace, quantity>>: three events of W1, two
\* on the first day and one on the second, and one of W2
ApiShapes ==
  {<<0, HOUR, W1, 1>>, <<2 * HOUR, 3 * HOUR, W1, 2>>,
   <<DAY + HOUR, DAY + 2 * HOUR, W1, 4>>, <<HOUR, 2 * HOUR, W2, 8>>}

api_event(u, sh) ==
  [uuid |-> u, event_start |-> sh[1], event_end |-> sh[2], item_id |-> 1,
   user |-> NULL, workspace |-> sh[3], quantity |-> RatInt(sh[4])]

Headers == {NoHeader, BasicHeader} \cup {Bearer(t) : t \in Tokens}

\* the page size when the request names none
ApiLimit == 100

Request(endpoint, target, authorization, time_aggregation, limit) ==
  [pc |-> "done", endpoint |-> endpoint, target |-> target,
   authorization |-> authorization, time_aggregation |-> time_aggregation,
   limit |-> limit]

InitApi ==
  /\ \E shape \in [1..MaxEvents -> ApiShapes] :
       db = [EmptyDb EXCEPT
               !.billing_item = {ConfiguredItem(S1)},
               !.billing_event = {api_event(u, shape[u]) : u \in 1..MaxEvents},
               !.workspace_account = {[workspace |-> W1, account |-> 1],
                                      [workspace |-> W2, account |-> 2]}]
  /\ last = NoReport
  /\ handled = 0
  /\ worker = NoWorker
  /\ page = NoPage

GetWorkspaceUsageData ==
  \E w \in {W1, W2}, h \in Headers, agg \in {"none", "day", "month"},
     limit \in {1, ApiLimit} :
    /\ handled = 0
    /\ worker' = Request("workspace", w, h, agg, limit)
    /\ last' = get_workspace_usage_data(db, Request("workspace", w, h, agg, limit))
    /\ handled' = 1
    /\ UNCHANGED <<db, page>>

GetAccountUsageData ==
  \E a \in Accounts, h \in Headers, limit \in {1, ApiLimit} :
    /\ handled = 0
    /\ worker' = Request("account", a, h, "none", limit)
    /\ last' = get_account_usage_data(db, Request("account", a, h, "none", limit))
    /\ handled' = 1
    /\ UNCHANGED <<db, page>>

NextApi ==
  \/ GetWorkspaceUsageData
  \/ GetAccountUsageData

SpecApi == InitApi /\ [][NextApi]_vars

\* the request carries a token that names the target (a workspace among its
\* workspaces, an account among its billing accounts) or has the hub_admin role
authorised(req) ==
  /\ req.authorization.scheme = "Bearer"
  /\ req.authorization.token.jwt
  /\ \/ (req.endpoint = "workspace" /\ req.target \in req.authorization.token.workspaces)
     \/ (req.endpoint = "account" /\ req.target \in req.authorization.token.accounts)
     \/ (/\ req.authorization.token.realm_access # <<>>
         /\ "hub_admin" \in req.authorization.token.realm_access[1])

events_of(d, workspace) == {e \in d.billing_event : e.workspace = workspace}

least(a, b) == IF a <= b THEN a ELSE b

\* C27: an authorised GET of a workspace's usage-data without time
\* aggregation answers 200 with one row per stored event of the workspace
\* (the first 'limit' of them), each row carrying the uuid, start, end, item
\* and quantity of its own event.
C27_UsageDataUnaggregated ==
  (/\ last.kind = "http" /\ worker.endpoint = "workspace"
   /\ worker.time_aggregation = "none" /\ authorised(worker))
  => /\ last.status = 200
     /\ Len(last.body) = least(worker.limit, Cardinality(events_of(db, worker.target)))
     /\ \A k, l \in 1..Len(last.body) : last.body[k].uuid = last.body[l].uuid => k = l
     /\ \A k \in 1..Len(last.body) :
          \E e \in events_of(db, worker.target) :
            last.body[k] = [uuid |-> e.uuid, event_start |-> strftime(e.event_start),
                            event_end |-> strftime(e.event_end),
                            item |-> sku_of(db, e.item_id), workspace |-> e.workspace,
                            quantity |-> e.quantity]

\* the model's instants start at the first instant of a month of 31 days
MONTH == 31 * DAY

bucket_start(t, time_aggregation) ==
  IF time_aggregation = "day" THEN t - (t % DAY) ELSE t - (t % MONTH)

\* the events of a workspace that fall into the bucket of event e
bucket_of(d, e, time_aggregation) ==
  {f \in events_of(d, e.workspace) :
     /\ f.item_id = e.item_id /\ f.user = e.user
     /\ bucket_start(f.event_start, time_aggregation)
          = bucket_start(e.event_start, time_aggregation)}

RECURSIVE quantity_sum(_)
quantity_sum(E) ==
  IF E = {} THEN RatInt(0)
  ELSE LET e == CHOOSE x \in E : TRUE
       IN RatAdd(e.quantity, quantity_sum(E \ {e}))

\* C28: an authorised GET of a workspace's usage-data with time aggregation
\* day or month answers 200 with one row per (workspace, item, user, bucket)
\* of the stored events of the workspace (the first 'limit' of them), the
\* bucket being the UTC day or month of event_start; the row's quantity is
\* the sum of the quantities of the bucket's events and its event_start the
\* start of the bucket.
C28_UsageDataAggregated ==
  (/\ last.kind = "http" /\ worker.endpoint = "workspace"
   /\ worker.time_aggregation \in {"day", "month"} /\ authorised(worker))
  => LET buckets == {bucket_of(db, e, worker.time_aggregation) :
                       e \in events_of(db, worker.target)}
     IN /\ last.status = 200
        /\ Len(last.body) = least(worker.limit, Cardinality(buckets))
        /\ \A k, l \in 1..Len(last.body) :
             (/\ last.body[k].event_start = last.body[l].event_start
              /\ last.body[k].item = last.body[l].item) => k = l
        /\ \A k \in 1..Len(last.body) :
             \E b \in buckets :
               /\ last.body[k].quantity = quantity_sum(b)
               /\ \A e \in b :
                    /\ last.body[k].event_start
                         = strftime(bucket_start(e.event_start, worker.time_aggregation))
                    /\ last.body[k].item = sku_of(db, e.item_id)
                    /\ last.body[k].workspace = e.workspace

\* C29: a response carries events only when the request is authorised; a
\* request without an Authorization header or with one that is no Bearer
\* header is answered 400, every other request that is not authorised 401,
\* both without any event.
C29_OnlyAuthorisedSubjects ==
  last.kind = "http"
  => /\ last.body # <<>> => authorised(worker)
     /\ worker.authorization.scheme # "Bearer"
        => (last.status = 400 /\ last.body = <<>>)
     /\ (worker.authorization.scheme = "Bearer" /\ ~authorised(worker))
        => (last.status = 401 /\ last.body = <<>>)

----------------------------------------------------------------------------
(* Errors the handlers do not name *)

\* the errors the ingester's handlers name: a parse failure of the message,
\* a constraint violation of the store, the store being unreachable
Classified == {"none", "ValueError", "IntegrityError", "OperationalError"}

\* C31 as stated: a handler run that ends with an error outside the named
\* ones (a failed assertion of the estimator) is reported as a temporary
\* failure.
C31_UnclassifiedIsTransient ==
  last.exc \notin Classified => last.outcome = "temporary"

\* C31: a handler run that ends with any error other than OperationalError,
\* a failed assertion of the estimator included, is reported as a permanent
\* failure.
C31_UnclassifiedIsPermanent ==
  (last.exc \notin {"none", "OperationalError"}) => last.outcome = "permanent"

\* a sample message that repeats a stored uuid under a pair with no sample:
\* the insert is a no-op and the estimator's assertion on the earliest sample
\* fails
C31_Witness ==
  /\ last.kind = "sample" /\ last.dup
  /\ last.exc = "AssertionError"
  /\ ~\E x \in db.rate_sample :
        x.workspace = last.workspace /\ sku_of(db, x.item_id) = last.sku

----------------------------------------------------------------------------
(* Events that end before they start *)

\* C32: handling a billing-event message whose event_start is later than its
\* event_end is a permanent failure that stores no event and, when an item
\* with the message's sku was in the store, adds no item; and no stored event
\* ever starts after it ends.
C32_BackwardEventRejected ==
  [][handled' = handled + 1
     => /\ \A e \in db'.billing_event : e.event_start <= e.event_end
        /\ (last'.kind = "event" /\ worker'.msg.event_start > worker'.msg.event_end)
           => /\ last'.outcome = "permanent"
              /\ db'.billing_event = db.billing_event
              /\ last'.known => db'.billing_item = db.billing_item]_vars

----------------------------------------------------------------------------
(* The quantity of an estimated window *)

\* the windows the estimator's loop hands to session.add, each with its
\* consumption: the loop goes on to the next window while the consumption
\* was computed and the row is accepted by the flush before the next query
RECURSIVE emitted(_, _, _, _, _)
emitted(d, workspace, sku, generate_from, upto) ==
  IF next_generate_to(generate_from) > upto THEN {}
  ELSE LET generate_to == next_generate_to(generate_from)
           c == calculate_consumption_for_interval(d, workspace, sku,
                                                   generate_from, generate_to)
       IN IF c.exc # "none" THEN {}
          ELSE {<<generate_from, generate_to, c.ret>>}
                 \cup (IF c.ret = QNULL
                          \/ pk_conflict(d.billing_event,
                                         estimate_uuid(workspace, sku, generate_from))
                       THEN {}
                       ELSE emitted(d, workspace, sku, generate_to, upto))

\* the windows emitted while handling the sample message m on the store d
emitted_for(d, m) ==
  LET r == record_event(d, m)
      b == est_begin(r.db, m.workspace, m.sku)
  IN IF r.exc # "none" \/ b.exc # "none" THEN {}
     ELSE emitted(r.db, m.workspace, m.sku, b.ret, generate_upto(m))

\* C33: every window the estimator emits while a sample message is handled
\* has a defined quantity, at least two samples having been fetched for it, so
\* the handler does not end with the IntegrityError of a null quantity; and no
\* stored event has a null quantity.
C33_EmittedQuantityDefined ==
  [][handled' = handled + 1
     => /\ \A e \in db'.billing_event : e.quantity # QNULL
        /\ last'.kind = "sample"
           => \A w \in emitted_for(db, worker'.msg) :
                 /\ w[3] # QNULL
                 /\ Len(find_data_for_interval(db', worker'.msg.workspace,
                                               worker'.msg.sku, w[1], w[2])) >= 2]_vars

----------------------------------------------------------------------------
(* Workspace and sku names that contain '-' *)

MaxNamed == 4

\* <<workspace, sku>>: the names of the last two pairs are built from the
\* same characters, split at a different '-'
NamedPairs ==
  {<<W1, S2>>, <<W1, W2 \o DASH \o S2>>, <<W1 \o DASH \o W2, S2>>}
NamedTimes == {1, 3}

NamedMsgs ==
  {[uuid |-> 4 * Len(p[1]) + 12 * Len(p[2]) + t,
    sample_time |-> t, tzoff |-> 0, sku |-> p[2], workspace |-> p[1], user |-> NULL,
    rate |-> 1] :
     p \in NamedPairs, t \in NamedTimes}

InitNamed ==
  /\ db = EmptyDb
  /\ last = NoReport
  /\ handled = 0
  /\ worker = Handling(NoMsg)
  /\ page = NoPage

\* ConsumptionSampleRateIngesterMessager.process_payload for one message
HandleNamedSample ==
  \E m \in NamedMsgs :
    /\ handled < MaxNamed
    /\ \E r \in {sample_process_payload(db, m)} :
          /\ db' = r.db
          /\ last' = Report("sample", m.uuid, m.sku, m.workspace, generate_upto(m), db, r,
                           r.attempts, r.created)
    /\ handled' = handled + 1
    /\ worker' = Handling(m)
    /\ UNCHANGED page

NextNamed == HandleNamedSample

SpecNamed == InitNamed /\ [][NextNamed]_vars

\* C34: the uuid of a window the estimator emits for a pair is the uuid of
\* no stored event of another (workspace, sku, window start): an event stored
\* under that uuid is the event of the same workspace, sku and start.
C34_EstimateUuidsDistinct ==
  [][handled' = handled + 1
     => \A w \in emitted_for(db, worker'.msg) :
          \A e \in db.billing_event :
            e.uuid = estimate_uuid(worker'.msg.workspace, worker'.msg.sku, w[1])
            => /\ e.workspace = worker'.msg.workspace
               /\ sku_of(db, e.item_id) = worker'.msg.sku
               /\ e.event_start = w[1]]_vars

----------------------------------------------------------------------------
(* Concurrent configuration loads.  Each load runs insert_configuration in   *)
(* its own session: the statements of upsert_configured_price read the       *)
(* committed store, the changes of the session (the closed latest price, the *)
(* new price) are flushed and published by session.commit().                 *)

Loaders == {1, 2}
MaxStartedLoads == 3

\* <<valid_from, price>> of the one price entry of a configuration, for S1
LoadShapes == {<<1, 10>>, <<2, 10>>, <<2, 11>>, <<3, 10>>}

LoadEntries ==
  {[sku |-> S1, valid_from |-> sh[1], price |-> sh[2]] : sh \in LoadShapes}

OpenPrice ==
  [uuid |-> 1, item_id |-> 1, price |-> 10, valid_from |-> 1, valid_until |-> NULL,
   configured_at |-> 0]

NoLoad ==
  [pc |-> "idle", price |-> [sku |-> EMPTY, valid_from |-> 0, price |-> 0],
   item_id |-> NULL, same |-> {}, latest |-> {}, exc |-> "none"]

InitLoads ==
  /\ db \in {[EmptyDb EXCEPT !.billing_item = {ConfiguredItem(S1)}],
             [EmptyDb EXCEPT !.billing_item = {ConfiguredItem(S1)},
                             !.billing_item_price = {OpenPrice}]}
  /\ last = NoReport
  /\ handled = 0
  /\ worker = [l \in Loaders |-> NoLoad]
  /\ page = NoPage

\* upsert_configured_price up to session.add: find_billing_item, the UPDATE of
\* an exact match (its row stays locked until the session ends), the SELECT
\* of the latest price and the order check
UpsertPrice(l) ==
  \E price \in LoadEntries :
    /\ worker[l].pc = "idle"
    /\ handled < MaxStartedLoads
    /\ \E item_id \in {item_subquery(db, price.sku)} :
         \E same \in {{p.uuid : p \in {q \in prices_of(db, item_id) :
                                         q.valid_from = price.valid_from}}} :
           \E L \in {latest_price(db, item_id)} :
             /\ \A o \in Loaders \ {l} :
                  worker[o].pc = "commit" => worker[o].same \cap same = {}
             /\ worker' =
                  [worker EXCEPT ![l] =
                     IF item_id = NULL
                     THEN [NoLoad EXCEPT !.price = price, !.exc = "ValueError"]
                     ELSE IF same # {}
                     THEN [NoLoad EXCEPT !.pc = "commit", !.price = price,
                                         !.item_id = item_id, !.same = same]
                     ELSE IF \E x \in L : x.valid_from > price.valid_from
                     THEN [NoLoad EXCEPT !.price = price, !.exc = "ValueError"]
                     ELSE [NoLoad EXCEPT !.pc = "commit", !.price = price,
                                         !.item_id = item_id,
                                         !.latest = {x.uuid : x \in L}]]
    /\ handled' = handled + 1
    /\ UNCHANGED <<db, last, page>>

\* session.commit() of insert_configuration: the flush writes the new price
\* value of the matched rows, or the valid_until of the latest price read and
\* the INSERT of the new price, and the commit publishes them
CommitLoad(l) ==
  /\ worker[l].pc = "commit"
  /\ \E w \in {worker[l]} :
       db' = [db EXCEPT !.billing_item_price =
                IF w.same # {}
                THEN {IF p.uuid \in w.same THEN [p EXCEPT !.price = w.price.price] ELSE p :
                        p \in @}
                ELSE {IF p.uuid \in w.latest
                      THEN [p EXCEPT !.valid_until = w.price.valid_from] ELSE p : p \in @}
                       \cup {[uuid |-> uuid4(@), item_id |-> w.item_id,
                              price |-> w.price.price, valid_from |-> w.price.valid_from,
                              valid_until |-> NULL, configured_at |-> handled]}]
  /\ worker' = [worker EXCEPT ![l].pc = "idle"]
  /\ last' = [NoReport EXCEPT !.kind = "config", !.uuid = l]
  /\ UNCHANGED <<handled, page>>

NextLoads ==
  \/ \E l \in Loaders : UpsertPrice(l)
  \/ \E l \in Loaders : CommitLoad(l)

SpecLoads == InitLoads /\ [][NextLoads]_vars

\* C35: once the concurrent loads have ended, every item has at most one
\* open-ended price and no two prices with the same valid_from.
C35_ConcurrentLoadsKeepTimeline ==
  (\A l \in Loaders : worker[l].pc = "idle")
  => \A i \in db.billing_item :
       /\ Cardinality(open_prices(db, i.uuid)) <= 1
       /\ \A p, q \in prices_of(db, i.uuid) : p.valid_from = q.valid_from => p = q

----------------------------------------------------------------------------
(* A sample handler that loses the store between its two commits *)

\* where the estimator would start for the pair: the latest event_end, or
\* the hour of the earliest sample
frontier(d, workspace, sku) == est_begin(d, workspace, sku).ret

\* C36: a sample handler run that stored its sample and then ended with
\* OperationalError leaves the sample recorded, no event added, and its
\* message waiting for redelivery; a sample stored before a run is stored
\* after it; and a redelivered sample message whose uuid is stored, handled
\* while every session reaches the store, ends ok with the frontier of its
\* pair at or beyond the hour of its sample_time, every window it created
\* starting where no estimate of the pair started before.
C36_RedeliveryCatchesUp ==
  [][(handled' = handled + 1 /\ last'.kind = "sample")
     => \A m \in {worker'.delivery.msg} :
          /\ pk_conflict(db.rate_sample, m.uuid) => pk_conflict(db'.rate_sample, m.uuid)
          /\ (last'.ret = m.uuid /\ last'.exc = "OperationalError")
             => /\ pk_conflict(db'.rate_sample, m.uuid)
                /\ db'.billing_event = db.billing_event
                /\ worker'.delivery \in worker'.pending
          /\ (worker'.redelivered /\ last'.dup /\ worker'.reach = Sessions)
             => /\ last'.outcome = "ok"
                /\ frontier(db', m.workspace, m.sku) >= generate_upto(m)
                /\ \A c \in last'.created :
                     ~\E e \in pair_events(db, m.workspace, m.sku) :
                        is_estimate(db, e) /\ e.event_start = c.event_start]_vars

----------------------------------------------------------------------------
(* Configuration files: a YAML text that is malformed, that is no mapping,   *)
(* or a mapping with items and prices                                        *)

MaxFiles == 3

Malformed == [yaml |-> "malformed", obj |-> [items |-> <<>>, prices |-> <<>>]]
NotAMapping == [yaml |-> "list", obj |-> [items |-> <<>>, prices |-> <<>>]]
Mapping(items, prices) == [yaml |-> "mapping", obj |-> [items |-> items, prices |-> prices]]

\* <<sku, valid_from, price>>
FileShapes == {<<S1, 1, 10>>, <<S1, 2, 11>>, <<S2, 1, 10>>}

FilePrices ==
  {[sku |-> sh[1], valid_from |-> sh[2], price |-> sh[3]] : sh \in FileShapes}

FileItems ==
  {<<>>, <<ItemEntry(S1)>>, <<[sku |-> S1, name |-> CfgUnit, unit |-> CfgUnit]>>}

ConfigFiles ==
  {Malformed, NotAMapping}
    \cup {Mapping(i, ps) : i \in FileItems, ps \in SeqsUpTo(FilePrices, MaxPrices)}

\* load_config_file with a file that exists: yaml.safe_load and the check of
\* the top level, then the session of insert_configuration
load_config_file(d, f, now) ==
  IF f.yaml # "mapping" THEN Result("YAMLError", NULL, d)
  ELSE insert_configuration(d, f.obj, now)

InitFiles ==
  /\ db = EmptyDb
  /\ last = NoReport
  /\ handled = 0
  /\ worker = Handling(Malformed)
  /\ page = NoPage

LoadConfigFile ==
  \E f \in ConfigFiles :
    /\ handled < MaxFiles
    /\ \E r \in {load_config_file(db, f, handled)} :
          /\ db' = r.db
          /\ last' = [NoReport EXCEPT !.kind = "config", !.exc = r.exc,
                                      !.outcome = consume(r.exc)]
    /\ worker' = Handling(f)
    /\ handled' = handled + 1
    /\ UNCHANGED page

NextFiles == LoadConfigFile

SpecFiles == InitFiles /\ [][NextFiles]_vars

\* the sku of the entry is neither in the store nor among the items of the
\* configuration
unknown_sku(d, config, e) ==
  /\ item_subquery(d, e.sku) = NULL
  /\ \A k \in 1..Len(config.items) : config.items[k].sku # e.sku

\* C37: a load that fails leaves the store exactly as it was, items and
\* prices alike; and a load fails when the text is malformed or no mapping,
\* when a price entry names a sku that neither the store nor the
\* configuration's items know, and when its first price entry is out of order.
C37_LoadIsAtomic ==
  [][handled' = handled + 1
     => \A f \in {worker'.msg} :
          /\ last'.exc # "none" => db' = db
          /\ f.yaml # "mapping" => last'.exc = "YAMLError"
          /\ (\E k \in 1..Len(f.obj.prices) : unknown_sku(db, f.obj, f.obj.prices[k]))
             => last'.exc = "ValueError"
          /\ (f.obj.prices # <<>> /\ out_of_order(db, f.obj.prices[1]))
             => last'.exc = "ValueError"]_vars

\* a load was rejected at its second price entry, after an item change and a
\* first price entry that the session had accepted
C37_Witness ==
  /\ last.kind = "config" /\ last.exc = "ValueError"
  /\ worker.msg.yaml = "mapping"
  /\ Len(worker.msg.obj.prices) = 2
  /\ \E r \in {upsert_items(db, worker.msg.obj.items)} :
       /\ r.exc = "none" /\ r.db # db
       /\ \E q \in {upsert_configured_price(r.db, worker.msg.obj.prices[1], 0)} :
            q.exc = "none" /\ q.db # r.db

----------------------------------------------------------------------------
(* Paging while the ingester stores new events *)

MaxLiveInserts == 2

LiveMsgs ==
  {[uuid |-> u, event_start |-> sh[1], event_end |-> sh[2], sku |-> S1,
    workspace |-> sh[3], user |-> NULL, quantity |-> 1] :
     u \in {3, 4}, sh \in PageShapes}

\* the client's record: the events stored when it fetched its first page
Client(inserts, before) == [inserts |-> inserts, before |-> before]

InitLive ==
  /\ \E shape \in [{1, 2} -> PageShapes] :
       db = [EmptyDb EXCEPT !.billing_item = {ConfiguredItem(S1)},
                            !.billing_event = {page_event(u, shape[u]) : u \in {1, 2}}]
  /\ \E l \in {1, 2}, w \in {NONE, W1} :
       page = [NoPage EXCEPT !.limit = l, !.workspace = w]
  /\ last = NoReport
  /\ handled = 0
  /\ worker = Client(0, {})

\* AccountingIngesterMessager.process_payload for one message
IngestLive ==
  \E m \in LiveMsgs :
    /\ worker.inserts < MaxLiveInserts
    /\ \E r \in {be_process_payload(db, m)} :
          /\ db' = r.db
          /\ last' = Report("event", m.uuid, m.sku, m.workspace, NULL, db, r, r.attempts, {})
    /\ worker' = Client(worker.inserts + 1, worker.before)
    /\ UNCHANGED <<handled, page>>

\* the client fetches its next page from the store as it is now
FetchLive ==
  /\ ~page.done
  /\ \E rows \in {find_billing_events(db, page.workspace, NULL, NULL, NULL,
                                      page.after, page.limit)} :
       page' = [page EXCEPT !.seen = @ \o rows,
                            !.after = IF rows = <<>> THEN @ ELSE rows[Len(rows)].uuid,
                            !.done = Len(rows) < page.limit]
  /\ worker' = IF handled = 0 THEN Client(worker.inserts, db.billing_event) ELSE worker
  /\ handled' = handled + 1
  /\ UNCHANGED <<db, last>>

NextLive ==
  \/ IngestLive
  \/ FetchLive

SpecLive == InitLive /\ [][NextLive]_vars

\* C38: whatever events are stored between the fetches, the rows fetched so
\* far are strictly increasing in (event_start, event_end, workspace, uuid),
\* so none is returned twice; every event that was stored at the first fetch,
\* matches the filter and is not beyond the last row fetched has been
\* returned, and all of them once the paging has ended.
C38_LivePagingNoDuplicates ==
  /\ \A i \in 1..(Len(page.seen) - 1) :
       /\ order_before(page.seen[i], page.seen[i + 1])
       /\ ~order_before(page.seen[i + 1], page.seen[i])
  /\ \A i, j \in 1..Len(page.seen) : page.seen[i].uuid = page.seen[j].uuid => i = j
  /\ \A e \in worker.before :
       (/\ page.workspace # NONE => e.workspace = page.workspace
        /\ \/ page.done
           \/ (page.seen # <<>> /\ order_before(e, page.seen[Len(page.seen)])))
       => \E i \in 1..Len(page.seen) : page.seen[i] = e

\* the paging ended after three fetches; an event stored after the first
\* fetch was returned on a later page, another one stored behind the rows
\* already fetched was not
C38_Witness ==
  /\ page.done /\ handled >= 3
  /\ \E e \in db.billing_event \ worker.before :
       \E i \in 1..Len(page.seen) : page.seen[i] = e
  /\ \E e \in db.billing_event \ worker.before :
       /\ page.workspace # NONE => e.workspace = page.workspace
       /\ \A i \in 1..Len(page.seen) : page.seen[i] # e

====
